---- MODULE Spec2Model ----
(***************************************************************************)
(* A model of revui's diff viewer (internal/ui DiffViewer), the root       *)
(* model that drives it, and the git diff data it displays.                *)
(*                                                                         *)
(* Go slices are 0-based; TLA+ sequences are 1-based.  Cursor, offset and  *)
(* every row index keep the program's 0-based values, and row i of a       *)
(* slice s is s[i + 1].                                                    *)
(***************************************************************************)
EXTENDS Integers, Sequences, FiniteSets, Bags, TLC

VARIABLES
    dv,        \* the DiffViewer value
    cmd,       \* direction of the navigateFileMsg returned by the last Update, 0 for a nil tea.Cmd
    crashed,   \* TRUE once an operation has panicked (index out of range)
    hist,      \* the last operation applied and the viewer it was applied to
    root,      \* the RootModel around the viewer, where there is one
    msgs,      \* the messages of the root model's commands that are in flight
    raw,       \* the text given to ParseDiff, where there is one
    parsed,    \* what ParseDiff returned for it, once it has been called
    unit       \* a component driven on its own: the pairer's lines and pairs,
               \* a file list, a comment store

vars == <<dv, cmd, crashed, hist, root, msgs, raw, parsed, unit>>

(***************************************************************************)
(* Bounds of the model.                                                    *)
(***************************************************************************)
\* Rows of the largest diff given to a viewer that is driven freely.
MaxViewRows == 3
\* Rows of the largest diff a single jump is tried on.
MaxRows == 5
\* The largest viewport height.
MaxHeight == 2
\* The most rows that carry a comment marker, for a single jump and for a
\* viewer that is driven freely.
MaxComments == 2
MaxViewComments == 1
MaxRootRows == 3
MaxRootComments == 1
\* Rows of the largest diff that replaces the one a search was made in.
MaxReloadRows == 2
\* Lines of the largest hunk given to the parser.
MaxParseLines == 2
\* Lines of the longest sequence given to the pairer.
MaxPairLines == 5
\* The largest line number that a comment of the store alone is keyed by.
MaxStoreLine == 2

(***************************************************************************)
(* git.Line, git.Hunk, git.FileDiff                                        *)
(***************************************************************************)
LineContext == "context"
LineAdded == "added"
LineRemoved == "removed"
LineTypes == {LineContext, LineAdded, LineRemoved}

\* A git.Line value; strings are sequences of characters.
Line(content, type) ==
    [Content |-> content, Type |-> type, OldLineNo |-> 0, NewLineNo |-> 0]

\* A nil *git.Line (the line of a hunk-header row).
NilLine == [nil |-> TRUE, Content |-> <<>>, Type |-> LineContext, OldLineNo |-> 0, NewLineNo |-> 0]

\* A non-nil *git.Line pointing at l.
PtrLine(l) ==
    [nil |-> FALSE, Content |-> l.Content, Type |-> l.Type,
     OldLineNo |-> l.OldLineNo, NewLineNo |-> l.NewLineNo]

\* A nil *git.FileDiff.
NilDiff == [nil |-> TRUE, Path |-> "", Status |-> "", Hunks |-> <<>>]

RECURSIVE assignFrom(_, _, _)
\* The loop of assignLineNumbers over the remaining lines, with its two counters.
assignFrom(ls, oldNo, newNo) ==
    IF ls = <<>> THEN <<>>
    ELSE LET l == Head(ls) IN
         CASE l.Type = LineContext ->
                <<[l EXCEPT !.OldLineNo = oldNo, !.NewLineNo = newNo]>>
                    \o assignFrom(Tail(ls), oldNo + 1, newNo + 1)
           [] l.Type = LineAdded ->
                <<[l EXCEPT !.NewLineNo = newNo]>> \o assignFrom(Tail(ls), oldNo, newNo + 1)
           [] l.Type = LineRemoved ->
                <<[l EXCEPT !.OldLineNo = oldNo]>> \o assignFrom(Tail(ls), oldNo + 1, newNo)

\* assignLineNumbers fills in OldLineNo and NewLineNo for each line in a hunk.
assignLineNumbers(h) ==
    [h EXCEPT !.Lines = assignFrom(h.Lines, h.OldStart, h.NewStart)]

(***************************************************************************)
(* ParseDiff.  A string is the sequence of its characters, and the raw     *)
(* text is one string in which "\n" ends a line.                           *)
(***************************************************************************)
\* No text has been given to the parser.
NoRaw == [given |-> FALSE]

\* No component is driven on its own.
NoUnit == [kind |-> "none"]

\* ParseDiff has not been called.
NotParsed == [done |-> FALSE]

\* strings.HasPrefix
HasPrefix(s, p) == Len(s) >= Len(p) /\ SubSeq(s, 1, Len(p)) = p

\* s[i:] for the 1-based index i.
From(s, i) == SubSeq(s, i, Len(s))

RECURSIVE Split(_, _)
\* strings.Split(s, sep) for a one-character separator.
Split(s, sep) ==
    IF \A i \in DOMAIN s : s[i] # sep THEN <<s>>
    ELSE LET i == CHOOSE k \in DOMAIN s : s[k] = sep /\ \A j \in 1..(k - 1) : s[j] # sep
         IN <<SubSeq(s, 1, i - 1)>> \o Split(From(s, i + 1), sep)

Digits == <<"0", "1", "2", "3", "4", "5", "6", "7", "8", "9">>
IsDigit(c) == \E d \in DOMAIN Digits : Digits[d] = c
DigitValue(c) == (CHOOSE d \in DOMAIN Digits : Digits[d] = c) - 1

RECURSIVE atoi(_)
\* atoi: strconv.Atoi with its error dropped, so that text that is not a
\* number gives 0.
atoi(s) ==
    IF s = <<>> \/ \E i \in DOMAIN s : ~IsDigit(s[i]) THEN 0
    ELSE IF Len(s) = 1 THEN DigitValue(s[1])
    ELSE 10 * atoi(SubSeq(s, 1, Len(s) - 1)) + DigitValue(s[Len(s)])

\* atoiDefault: the default for a group that did not take part in the match.
atoiDefault(s, def) == IF s = <<>> THEN def ELSE atoi(s)

\* The result of FindStringSubmatch when the pattern does not match.
NoMatch == [ok |-> FALSE, m |-> <<>>]

\* diffHeaderRe, `^diff --git a/(.+) b/(.+)$`: the first group is greedy, so
\* it ends at the last " b/" that leaves both groups non-empty.
diffHeaderRe(line) ==
    LET pre == <<"d", "i", "f", "f", " ", "-", "-", "g", "i", "t", " ", "a", "/">>
        mid == <<" ", "b", "/">>
        cuts == {k \in (Len(pre) + 2)..(Len(line) - Len(mid)) :
                    HasPrefix(From(line, k), mid)}
    IN IF HasPrefix(line, pre) /\ cuts # {}
       THEN LET k == CHOOSE c \in cuts : \A d \in cuts : d <= c
            IN [ok |-> TRUE,
                m |-> <<line, SubSeq(line, Len(pre) + 1, k - 1), From(line, k + Len(mid))>>]
       ELSE NoMatch

RECURSIVE digitsEnd(_, _)
\* The index after the digits of s that start at index i.
digitsEnd(s, i) == IF i <= Len(s) /\ IsDigit(s[i]) THEN digitsEnd(s, i + 1) ELSE i

\* `(\d+)(?:,(\d+))?` at index i of s: the two groups, the second one empty
\* when it takes no part, and the index after them.
rangeAt(s, i) ==
    LET e1 == digitsEnd(s, i)
        e2 == digitsEnd(s, e1 + 1)
    IN IF e1 = i THEN [ok |-> FALSE, start |-> <<>>, count |-> <<>>, next |-> i]
       ELSE IF e1 <= Len(s) /\ s[e1] = "," /\ e2 > e1 + 1
            THEN [ok |-> TRUE, start |-> SubSeq(s, i, e1 - 1),
                  count |-> SubSeq(s, e1 + 1, e2 - 1), next |-> e2]
            ELSE [ok |-> TRUE, start |-> SubSeq(s, i, e1 - 1), count |-> <<>>, next |-> e1]

\* hunkHeaderRe, `^@@ -(\d+)(?:,(\d+))? \+(\d+)(?:,(\d+))? @@`: anchored at
\* the start of the line only.
hunkHeaderRe(line) ==
    LET pre == <<"@", "@", " ", "-">>
        o == rangeAt(line, Len(pre) + 1)
        n == rangeAt(line, o.next + 2)
    IN IF /\ HasPrefix(line, pre)
          /\ o.ok
          /\ HasPrefix(From(line, o.next), <<" ", "+">>)
          /\ n.ok
          /\ HasPrefix(From(line, n.next), <<" ", "@", "@">>)
       THEN [ok |-> TRUE, m |-> <<line, o.start, o.count, n.start, n.count>>]
       ELSE NoMatch

\* The prefixes of the lines that ParseDiff skips wherever they stand.
skippedPrefixes ==
    {<<"i", "n", "d", "e", "x", " ">>,
     <<"o", "l", "d", " ", "m", "o", "d", "e", " ">>,
     <<"n", "e", "w", " ", "m", "o", "d", "e", " ">>,
     <<"n", "e", "w", " ", "f", "i", "l", "e", " ", "m", "o", "d", "e", " ">>,
     <<"d", "e", "l", "e", "t", "e", "d", " ", "f", "i", "l", "e", " ", "m", "o", "d", "e", " ">>,
     <<"-", "-", "-", " ">>,
     <<"+", "+", "+", " ">>}

\* hunkComplete returns true when the hunk has consumed all expected lines.
hunkComplete(h) ==
    /\ Cardinality({i \in DOMAIN h.Lines : h.Lines[i].Type # LineAdded}) >= h.OldCount
    /\ Cardinality({i \in DOMAIN h.Lines : h.Lines[i].Type # LineRemoved}) >= h.NewCount

\* append(hunk.Lines, l) for the last hunk of the file diff.
appendLine(current, l) ==
    [current EXCEPT !.Hunks[Len(current.Hunks)].Lines = Append(@, l)]

RECURSIVE parseLines(_, _, _)
\* The loop of ParseDiff over the remaining lines, and the append of the
\* last file diff after it.
parseLines(lines, diffs, current) ==
    LET pushed == IF current.nil THEN diffs ELSE Append(diffs, current) IN
    IF lines = <<>> THEN pushed
    ELSE LET line == Head(lines)
             rest == Tail(lines)
             dm == diffHeaderRe(line)
             hm == hunkHeaderRe(line)
         IN
         IF dm.ok
         THEN parseLines(rest, pushed,
                         [nil |-> FALSE, Path |-> dm.m[3], Status |-> "", Hunks |-> <<>>])
         ELSE IF \E p \in skippedPrefixes : HasPrefix(line, p)
         THEN parseLines(rest, diffs, current)
         ELSE IF hm.ok
         THEN IF current.nil THEN parseLines(rest, diffs, current)
              ELSE parseLines(rest, diffs,
                     [current EXCEPT !.Hunks = Append(@,
                        [OldStart |-> atoi(hm.m[2]), OldCount |-> atoiDefault(hm.m[3], 1),
                         NewStart |-> atoi(hm.m[4]), NewCount |-> atoiDefault(hm.m[5], 1),
                         Header |-> line, Lines |-> <<>>])])
         ELSE IF HasPrefix(line, <<"\\", " ">>)
         THEN parseLines(rest, diffs, current)
         ELSE IF current.nil \/ Len(current.Hunks) = 0
         THEN parseLines(rest, diffs, current)
         ELSE IF HasPrefix(line, <<"+">>)
         THEN parseLines(rest, diffs, appendLine(current, Line(Tail(line), LineAdded)))
         ELSE IF HasPrefix(line, <<"-">>)
         THEN parseLines(rest, diffs, appendLine(current, Line(Tail(line), LineRemoved)))
         ELSE IF HasPrefix(line, <<" ">>)
         THEN parseLines(rest, diffs, appendLine(current, Line(Tail(line), LineContext)))
         ELSE IF line = <<>> /\ ~hunkComplete(current.Hunks[Len(current.Hunks)])
         THEN parseLines(rest, diffs, appendLine(current, Line(<<>>, LineContext)))
         ELSE parseLines(rest, diffs, current)

\* ParseDiff parses unified diff output into a slice of FileDiff values; err
\* is whether the error it returns is non-nil.
ParseDiff(text) ==
    IF text = <<>> THEN [diffs |-> <<>>, err |-> FALSE]
    ELSE LET diffs == parseLines(Split(text, "\n"), <<>>, NilDiff)
         IN [diffs |-> [i \in DOMAIN diffs |->
                          [diffs[i] EXCEPT !.Hunks =
                              [j \in DOMAIN @ |-> assignLineNumbers(@[j])]]],
             err |-> FALSE]

(***************************************************************************)
(* BuildSideBySidePairs.  A *git.Line of a pair is the 0-based index of    *)
(* the line in the slice it points into.                                   *)
(***************************************************************************)
\* A nil *git.Line of a LinePair.
NilPtr == -1

\* LinePair represents a paired line for side-by-side display.
LinePair(left, right) == [Left |-> left, Right |-> right]

\* The pairs of the pending removed lines, each with no right side.
flushRemoved(removed) == [k \in DOMAIN removed |-> LinePair(removed[k], NilPtr)]

RECURSIVE pairFrom_noFlush(_, _, _, _)
\* pairFrom without the flush of the removed lines that are left at the end.
pairFrom_noFlush(lines, i, pairs, removed) ==
    IF i >= Len(lines) THEN pairs
    ELSE CASE lines[i + 1].Type = LineRemoved ->
                pairFrom_noFlush(lines, i + 1, pairs, Append(removed, i))
           [] lines[i + 1].Type = LineAdded ->
                IF Len(removed) > 0
                THEN pairFrom_noFlush(lines, i + 1,
                                      Append(pairs, LinePair(Head(removed), i)), Tail(removed))
                ELSE pairFrom_noFlush(lines, i + 1, Append(pairs, LinePair(NilPtr, i)), removed)
           [] lines[i + 1].Type = LineContext ->
                pairFrom_noFlush(lines, i + 1,
                                 pairs \o flushRemoved(removed) \o <<LinePair(i, i)>>, <<>>)

RECURSIVE pairFrom_lastRemoved(_, _, _, _)
\* pairFrom with an added line paired with the last pending removed line.
pairFrom_lastRemoved(lines, i, pairs, removed) ==
    IF i >= Len(lines) THEN pairs \o flushRemoved(removed)
    ELSE CASE lines[i + 1].Type = LineRemoved ->
                pairFrom_lastRemoved(lines, i + 1, pairs, Append(removed, i))
           [] lines[i + 1].Type = LineAdded ->
                IF Len(removed) > 0
                THEN pairFrom_lastRemoved(lines, i + 1,
                        Append(pairs, LinePair(removed[Len(removed)], i)),
                        SubSeq(removed, 1, Len(removed) - 1))
                ELSE pairFrom_lastRemoved(lines, i + 1, Append(pairs, LinePair(NilPtr, i)), removed)
           [] lines[i + 1].Type = LineContext ->
                pairFrom_lastRemoved(lines, i + 1,
                                     pairs \o flushRemoved(removed) \o <<LinePair(i, i)>>, <<>>)

RECURSIVE pairFrom_contextLeft(_, _, _, _)
\* pairFrom with a context line on the left side only.
pairFrom_contextLeft(lines, i, pairs, removed) ==
    IF i >= Len(lines) THEN pairs \o flushRemoved(removed)
    ELSE CASE lines[i + 1].Type = LineRemoved ->
                pairFrom_contextLeft(lines, i + 1, pairs, Append(removed, i))
           [] lines[i + 1].Type = LineAdded ->
                IF Len(removed) > 0
                THEN pairFrom_contextLeft(lines, i + 1,
                                          Append(pairs, LinePair(Head(removed), i)), Tail(removed))
                ELSE pairFrom_contextLeft(lines, i + 1, Append(pairs, LinePair(NilPtr, i)), removed)
           [] lines[i + 1].Type = LineContext ->
                pairFrom_contextLeft(lines, i + 1,
                                     pairs \o flushRemoved(removed) \o <<LinePair(i, NilPtr)>>, <<>>)

RECURSIVE pairFrom(_, _, _, _)
\* The loop of BuildSideBySidePairs from line i on, with the pairs made so
\* far and the pending removed lines, and the flush after it.
pairFrom(lines, i, pairs, removed) ==
    IF i >= Len(lines) THEN pairs \o flushRemoved(removed)
    ELSE CASE lines[i + 1].Type = LineRemoved ->
                pairFrom(lines, i + 1, pairs, Append(removed, i))
           [] lines[i + 1].Type = LineAdded ->
                IF Len(removed) > 0
                THEN pairFrom(lines, i + 1,
                              Append(pairs, LinePair(Head(removed), i)), Tail(removed))
                ELSE pairFrom(lines, i + 1, Append(pairs, LinePair(NilPtr, i)), removed)
           [] lines[i + 1].Type = LineContext ->
                pairFrom(lines, i + 1,
                         pairs \o flushRemoved(removed) \o <<LinePair(i, i)>>, <<>>)

\* BuildSideBySidePairs pairs removed/added lines side-by-side and maps
\* context lines to both sides.
BuildSideBySidePairs(lines) == pairFrom(lines, 0, <<>>, <<>>)

(***************************************************************************)
(* The diffs given to the viewer: every file diff that flattens to at most *)
(* a given number of rows, of any line types, numbered as the parser       *)
(* numbers them.                                                           *)
(***************************************************************************)
\* The content of the i-th line of a hunk.
ContentAt(i) == IF i % 2 = 1 THEN <<"a">> ELSE <<"b", "a">>

HeaderKind == "header"
RowKinds == {HeaderKind} \cup LineTypes

RECURSIVE ShapesUpTo(_)
\* The row kinds of every diff that flattens to at most n rows: a diff is a
\* sequence of hunks, so its first row, if any, is a hunk header.
ShapesUpTo(n) ==
    IF n = 0 THEN {<<>>}
    ELSE LET shorter == ShapesUpTo(n - 1) IN
         shorter \cup {Append(s, k) : s \in {t \in shorter : Len(t) = n - 1},
                                      k \in IF n = 1 THEN {HeaderKind} ELSE RowKinds}

CountOld(types) == Cardinality({i \in DOMAIN types : types[i] # LineAdded})
CountNew(types) == Cardinality({i \in DOMAIN types : types[i] # LineRemoved})

\* The hunk the parser returns for a header at oldStart/newStart followed by
\* lines of the given types.
MkHunk(types, oldStart, newStart) ==
    assignLineNumbers(
        [OldStart |-> oldStart, OldCount |-> CountOld(types),
         NewStart |-> newStart, NewCount |-> CountNew(types),
         Header |-> <<"@@", oldStart, CountOld(types), newStart, CountNew(types)>>,
         Lines |-> [i \in DOMAIN types |-> Line(ContentAt(i), types[i])]])

RECURSIVE LinesOfFirstHunk(_)
\* The line types up to the next hunk header.
LinesOfFirstHunk(kinds) ==
    IF kinds = <<>> \/ Head(kinds) = HeaderKind THEN <<>>
    ELSE <<Head(kinds)>> \o LinesOfFirstHunk(Tail(kinds))

RECURSIVE MkHunks(_, _, _)
\* The hunks of a diff with the given row kinds, each hunk starting one
\* unchanged line after the previous one ends.
MkHunks(kinds, oldStart, newStart) ==
    IF kinds = <<>> THEN <<>>
    ELSE LET types == LinesOfFirstHunk(Tail(kinds))
             h == MkHunk(types, oldStart, newStart)
         IN  <<h>> \o MkHunks(SubSeq(kinds, Len(types) + 2, Len(kinds)),
                              oldStart + h.OldCount + 1, newStart + h.NewCount + 1)

MkDiff(path, kinds) ==
    [nil |-> FALSE, Path |-> path, Status |-> "M", Hunks |-> MkHunks(kinds, 1, 1)]

\* Every diff of at most n rows, and the nil diff.
DiffsUpTo(n) == {NilDiff} \cup {MkDiff("a.go", s) : s \in ShapesUpTo(n)}

(***************************************************************************)
(* DiffViewer                                                              *)
(***************************************************************************)
NoBracket == "none"

\* A hunk-header row and a code row of the flattened diff (diffLine).
HeaderRow(h) == [isHunkHeader |-> TRUE, hunkHeader |-> h.Header, line |-> NilLine]
CodeRow(l) == [isHunkHeader |-> FALSE, hunkHeader |-> <<>>, line |-> PtrLine(l)]

RECURSIVE flattenHunks_headerLast(_)
\* flattenHunks with the header row of a hunk after the rows of its lines.
flattenHunks_headerLast(hunks) ==
    IF hunks = <<>> THEN <<>>
    ELSE LET h == Head(hunks) IN
         [i \in DOMAIN h.Lines |-> CodeRow(h.Lines[i])] \o <<HeaderRow(h)>>
             \o flattenHunks_headerLast(Tail(hunks))

RECURSIVE flattenHunks(_)
\* The loop of flattenLines: one header row per hunk, then one row per line.
flattenHunks(hunks) ==
    IF hunks = <<>> THEN <<>>
    ELSE LET h == Head(hunks) IN
         <<HeaderRow(h)>> \o [i \in DOMAIN h.Lines |-> CodeRow(h.Lines[i])]
             \o flattenHunks(Tail(hunks))

\* flattenLines, as a function of dv.diff.
flattenLines(fd) == IF fd.nil THEN <<>> ELSE flattenHunks(fd.Hunks)

\* NewDiffViewer(width, height): every other field is Go's zero value.
NewDiffViewer(height) ==
    [diff |-> NilDiff, lines |-> <<>>, cursor |-> 0, offset |-> 0, height |-> height,
     commentLines |-> {}, visualMode |-> FALSE, visualStart |-> 0, sideBySide |-> FALSE,
     searchTerm |-> <<>>, searchMatches |-> <<>>,
     pendingBracket |-> NoBracket, preBracketCursor |-> 0]

\* adjustScroll: two independent ifs, the second reads the offset the first wrote.
adjustScroll(d) ==
    LET d1 == IF d.cursor < d.offset THEN [d EXCEPT !.offset = d.cursor] ELSE d IN
    IF d1.cursor >= d1.offset + d1.height
    THEN [d1 EXCEPT !.offset = d1.cursor - d1.height + 1]
    ELSE d1

\* SetDiff sets the diff content to display.
SetDiff(d, fd) ==
    [d EXCEPT !.diff = fd, !.cursor = 0, !.offset = 0, !.lines = flattenLines(fd)]

\* SetCursorToEnd positions the cursor at the last line and scrolls to show it.
SetCursorToEnd(d) ==
    IF Len(d.lines) > 0 THEN adjustScroll([d EXCEPT !.cursor = Len(d.lines) - 1]) ELSE d

\* SetCommentLines: the map is modelled by the set of indices it maps to true.
SetCommentLines(d, markers) == [d EXCEPT !.commentLines = markers]

\* SetSize updates the dimensions.
SetSize(d, height) == [d EXCEPT !.height = height]

\* RefreshDiff without the clamp of the cursor.
RefreshDiff_noClamp(d, fd) ==
    LET d1 == [d EXCEPT !.diff = fd, !.lines = flattenLines(fd)]
        n == Len(d1.lines)
    IN  IF n = 0 THEN [d1 EXCEPT !.cursor = 0, !.offset = 0]
        ELSE adjustScroll(IF d1.offset >= n THEN [d1 EXCEPT !.offset = n - 1] ELSE d1)

\* RefreshDiff that resets the position as SetDiff does.
RefreshDiff_asSetDiff(d, fd) == SetDiff(d, fd)

\* RefreshDiff without the reset of cursor and offset for an empty diff.
RefreshDiff_noEmptyReset(d, fd) ==
    LET d1 == [d EXCEPT !.diff = fd, !.lines = flattenLines(fd)]
        n == Len(d1.lines)
        d2 == IF d1.cursor >= n THEN [d1 EXCEPT !.cursor = n - 1] ELSE d1
        d3 == IF d2.offset >= n THEN [d2 EXCEPT !.offset = n - 1] ELSE d2
    IN  adjustScroll(d3)

\* RefreshDiff updates the diff content while preserving cursor and scroll position.
RefreshDiff(d, fd) ==
    LET d1 == [d EXCEPT !.diff = fd, !.lines = flattenLines(fd)]
        n == Len(d1.lines)
    IN  IF n = 0 THEN [d1 EXCEPT !.cursor = 0, !.offset = 0]
        ELSE LET d2 == IF d1.cursor >= n THEN [d1 EXCEPT !.cursor = n - 1] ELSE d1
                 d3 == IF d2.offset >= n THEN [d2 EXCEPT !.offset = n - 1] ELSE d2
             IN  adjustScroll(d3)

\* dv.lines[i] panics when i is no index of the slice.
IndexPanics(lines, i) == i < 0 \/ i >= Len(lines)

\* isChangedLine(i), for an index of the slice.
isChangedLine(lines, i) ==
    LET dl == lines[i + 1] IN
    ~dl.line.nil /\ (dl.line.Type = LineAdded \/ dl.line.Type = LineRemoved)

\* What a jump operation returns: the viewer, its bool result, whether it panicked.
Jumped(d, ok) == [dv |-> d, ok |-> ok, panic |-> FALSE]
Panicked(d) == [dv |-> d, ok |-> FALSE, panic |-> TRUE]

RECURSIVE nextHunkFrom(_, _)
\* The loop of jumpToNextHunk from index i: the index found, or -1.
nextHunkFrom(lines, i) ==
    IF i >= Len(lines) THEN -1
    ELSE IF lines[i + 1].isHunkHeader THEN i ELSE nextHunkFrom(lines, i + 1)

jumpToNextHunk(d) ==
    LET i == nextHunkFrom(d.lines, d.cursor + 1) IN
    IF i >= 0 THEN Jumped(adjustScroll([d EXCEPT !.cursor = i]), TRUE) ELSE Jumped(d, FALSE)

RECURSIVE prevHunkFrom(_, _)
\* The loop of jumpToPrevHunk from index i: the index found, or -1.
prevHunkFrom(lines, i) ==
    IF i < 0 THEN -1
    ELSE IF lines[i + 1].isHunkHeader THEN i ELSE prevHunkFrom(lines, i - 1)

\* The loop starts at cursor-1 and indexes the slice there.
jumpToPrevHunk(d) ==
    IF d.cursor - 1 >= 0 /\ IndexPanics(d.lines, d.cursor - 1) THEN Panicked(d)
    ELSE LET i == prevHunkFrom(d.lines, d.cursor - 1) IN
         IF i >= 0 THEN Jumped(adjustScroll([d EXCEPT !.cursor = i]), TRUE)
         ELSE Jumped(d, FALSE)

RECURSIVE skipFwd(_, _, _)
\* for i < len(lines) && isChangedLine(i) == changed { i++ }
skipFwd(lines, i, changed) ==
    IF i < Len(lines) /\ isChangedLine(lines, i) = changed
    THEN skipFwd(lines, i + 1, changed) ELSE i

\* jumpToNextChange without its first loop: the block under the cursor is not skipped.
jumpToNextChange_noSkipBlock(d) ==
    IF d.cursor < 0 THEN Panicked(d)
    ELSE LET i2 == skipFwd(d.lines, d.cursor, FALSE) IN
         IF i2 < Len(d.lines)
         THEN Jumped(adjustScroll([d EXCEPT !.cursor = i2]), TRUE)
         ELSE Jumped(d, FALSE)

\* jumpToNextChange: the first loop tests i < len(lines) and then indexes the
\* slice at i, so a negative cursor panics; later indices stay inside the slice.
jumpToNextChange(d) ==
    IF d.cursor < 0 THEN Panicked(d)
    ELSE LET i1 == skipFwd(d.lines, d.cursor, TRUE)
             i2 == skipFwd(d.lines, i1, FALSE)
         IN  IF i2 < Len(d.lines)
             THEN Jumped(adjustScroll([d EXCEPT !.cursor = i2]), TRUE)
             ELSE Jumped(d, FALSE)

RECURSIVE skipBackUnchanged(_, _)
\* for i >= 0 && !isChangedLine(i) { i-- }
skipBackUnchanged(lines, i) ==
    IF i >= 0 /\ ~isChangedLine(lines, i) THEN skipBackUnchanged(lines, i - 1) ELSE i

RECURSIVE blockStart(_, _)
\* for i > 0 && isChangedLine(i-1) { i-- }
blockStart(lines, i) ==
    IF i > 0 /\ isChangedLine(lines, i - 1) THEN blockStart(lines, i - 1) ELSE i

\* jumpToPrevChange: `i > 0 && isChangedLine(i)` and then `i >= 0 &&
\* !isChangedLine(i)` index the slice at the cursor when it is not negative, so
\* a cursor at or past len(lines) panics (cursor 0 on an empty slice included).
jumpToPrevChange(d) ==
    IF d.cursor >= 0 /\ IndexPanics(d.lines, d.cursor) THEN Panicked(d)
    ELSE LET i0 == d.cursor
             i1 == IF i0 > 0 /\ isChangedLine(d.lines, i0) THEN i0 - 1 ELSE i0
             i2 == skipBackUnchanged(d.lines, i1)
             i3 == blockStart(d.lines, i2)
         IN  IF i3 >= 0 /\ isChangedLine(d.lines, i3)
             THEN Jumped(adjustScroll([d EXCEPT !.cursor = i3]), TRUE)
             ELSE Jumped(d, FALSE)

\* strings.Contains(s, t)
Contains(s, t) ==
    \E i \in 0..(Len(s) - Len(t)) : SubSeq(s, i + 1, i + Len(t)) = t

RECURSIVE matchesFrom(_, _, _)
\* The loop of SetSearch from index i: the matching indices in increasing order.
matchesFrom(lines, term, i) ==
    IF i >= Len(lines) THEN <<>>
    ELSE LET dl == lines[i + 1]
             rest == matchesFrom(lines, term, i + 1)
         IN  IF ~dl.line.nil /\ Contains(dl.line.Content, term) THEN <<i>> \o rest ELSE rest

\* SetSearch without the early return for the empty term.
SetSearch_noEmptyCheck(d, term) ==
    [d EXCEPT !.searchTerm = term, !.searchMatches = matchesFrom(d.lines, term, 0)]

\* SetSearch sets the search term and computes matches.
SetSearch(d, term) ==
    [d EXCEPT !.searchTerm = term,
              !.searchMatches = IF term = <<>> THEN <<>> ELSE matchesFrom(d.lines, term, 0)]

\* jumpToNextSearch without the wrap to the first match.
jumpToNextSearch_noWrap(d) ==
    IF Len(d.searchMatches) = 0 THEN d
    ELSE LET after == {k \in DOMAIN d.searchMatches : d.searchMatches[k] > d.cursor} IN
         IF after # {}
         THEN LET k == CHOOSE k \in after : \A m \in after : k <= m IN
              adjustScroll([d EXCEPT !.cursor = d.searchMatches[k]])
         ELSE d

\* jumpToNextSearch: the first match after the cursor, else the first match.
jumpToNextSearch(d) ==
    IF Len(d.searchMatches) = 0 THEN d
    ELSE LET after == {k \in DOMAIN d.searchMatches : d.searchMatches[k] > d.cursor} IN
         IF after # {}
         THEN LET k == CHOOSE k \in after : \A m \in after : k <= m IN
              adjustScroll([d EXCEPT !.cursor = d.searchMatches[k]])
         ELSE adjustScroll([d EXCEPT !.cursor = d.searchMatches[1]])

jumpToPrevSearch(d) ==
    IF Len(d.searchMatches) = 0 THEN d
    ELSE LET before == {k \in DOMAIN d.searchMatches : d.searchMatches[k] < d.cursor} IN
         IF before # {}
         THEN LET k == CHOOSE k \in before : \A m \in before : k >= m IN
              adjustScroll([d EXCEPT !.cursor = d.searchMatches[k]])
         ELSE adjustScroll([d EXCEPT !.cursor = d.searchMatches[Len(d.searchMatches)]])

\* jumpToNextComment: the first index after the cursor, below len(lines), that
\* the map marks.
jumpToNextComment(d) ==
    LET found == {i \in (d.cursor + 1)..(Len(d.lines) - 1) : i \in d.commentLines} IN
    IF found # {}
    THEN adjustScroll([d EXCEPT !.cursor = CHOOSE i \in found : \A j \in found : i <= j])
    ELSE d

\* jumpToPrevComment: the last index before the cursor, from 0, that the map
\* marks.
jumpToPrevComment(d) ==
    LET found == {i \in 0..(d.cursor - 1) : i \in d.commentLines} IN
    IF found # {}
    THEN adjustScroll([d EXCEPT !.cursor = CHOOSE i \in found : \A j \in found : i >= j])
    ELSE d

\* What Update returns: the viewer, the returned command (the direction of its
\* navigateFileMsg, 0 for nil), and whether the call panicked.
Ret(d, c) == [dv |-> d, cmd |-> c, panic |-> FALSE]
RetPanic(d) == [dv |-> d, cmd |-> 0, panic |-> TRUE]

\* The keys "}" and "{": a failed hunk jump returns the navigateFileMsg.
hunkKey(j, dir) ==
    IF j.panic THEN RetPanic(j.dv)
    ELSE IF ~j.ok THEN Ret(j.dv, dir) ELSE Ret(j.dv, 0)

\* The keys "]" and "[" after preBracketCursor is saved: pendingBracket is set
\* on both paths, and a failed jump returns the navigateFileMsg.
bracketKey(j, bracket, dir) ==
    IF j.panic THEN RetPanic(j.dv)
    ELSE IF ~j.ok THEN Ret([j.dv EXCEPT !.pendingBracket = bracket], dir)
         ELSE Ret([j.dv EXCEPT !.pendingBracket = bracket], 0)

\* The `switch key` of Update.
updateKey(d, key) ==
    CASE key \in {"j", "down"} ->
            IF d.cursor < Len(d.lines) - 1
            THEN Ret(adjustScroll([d EXCEPT !.cursor = d.cursor + 1]), 0) ELSE Ret(d, 0)
      [] key \in {"k", "up"} ->
            IF d.cursor > 0
            THEN Ret(adjustScroll([d EXCEPT !.cursor = d.cursor - 1]), 0) ELSE Ret(d, 0)
      [] key = "G" -> Ret(adjustScroll([d EXCEPT !.cursor = Len(d.lines) - 1]), 0)
      [] key = "g" -> Ret([d EXCEPT !.cursor = 0, !.offset = 0], 0)
      [] key = "ctrl+d" ->
            LET c == d.cursor + (d.height \div 2) IN
            Ret(adjustScroll([d EXCEPT !.cursor =
                    IF c >= Len(d.lines) THEN Len(d.lines) - 1 ELSE c]), 0)
      [] key = "ctrl+u" ->
            LET c == d.cursor - (d.height \div 2) IN
            Ret(adjustScroll([d EXCEPT !.cursor = IF c < 0 THEN 0 ELSE c]), 0)
      [] key = "ctrl+f" ->
            LET c == d.cursor + d.height IN
            Ret(adjustScroll([d EXCEPT !.cursor =
                    IF c >= Len(d.lines) THEN Len(d.lines) - 1 ELSE c]), 0)
      [] key = "ctrl+b" ->
            LET c == d.cursor - d.height IN
            Ret(adjustScroll([d EXCEPT !.cursor = IF c < 0 THEN 0 ELSE c]), 0)
      [] key = "}" -> hunkKey(jumpToNextHunk(d), 1)
      [] key = "{" -> hunkKey(jumpToPrevHunk(d), -1)
      [] key = "v" ->
            IF d.visualMode THEN Ret([d EXCEPT !.visualMode = FALSE], 0)
            ELSE Ret([d EXCEPT !.visualMode = TRUE, !.visualStart = d.cursor], 0)
      [] key = "esc" -> Ret([d EXCEPT !.visualMode = FALSE], 0)
      [] key = "tab" -> Ret([d EXCEPT !.sideBySide = ~d.sideBySide], 0)
      [] key = "]" ->
            bracketKey(jumpToNextChange([d EXCEPT !.preBracketCursor = d.cursor]), "]", 1)
      [] key = "[" ->
            bracketKey(jumpToPrevChange([d EXCEPT !.preBracketCursor = d.cursor]), "[", -1)
      [] key = "n" -> Ret(jumpToNextSearch(d), 0)
      [] key = "N" -> Ret(jumpToPrevSearch(d), 0)
      [] OTHER -> Ret(d, 0)

\* Update with "c" resolved from wherever the bracket key left the cursor.
Update_noRestore(d, key) ==
    IF d.pendingBracket # NoBracket
    THEN IF key = "c"
         THEN LET j == IF d.pendingBracket = "]"
                       THEN jumpToNextComment(d) ELSE jumpToPrevComment(d)
              IN  Ret([j EXCEPT !.pendingBracket = NoBracket], 0)
         ELSE updateKey([d EXCEPT !.pendingBracket = NoBracket], key)
    ELSE updateKey(d, key)

\* Update with a pending bracket kept by the keys other than "c".
Update_keepPending(d, key) ==
    IF d.pendingBracket # NoBracket /\ key = "c"
    THEN LET r == [d EXCEPT !.cursor = d.preBracketCursor]
             j == IF d.pendingBracket = "]"
                  THEN jumpToNextComment(r) ELSE jumpToPrevComment(r)
         IN  Ret([j EXCEPT !.pendingBracket = NoBracket], 0)
    ELSE updateKey(d, key)

\* DiffViewer.Update for a tea.KeyMsg: a pending bracket is resolved by "c" and
\* cleared by any other key, which is then processed by the switch.
Update(d, key) ==
    IF d.pendingBracket # NoBracket
    THEN IF key = "c"
         THEN LET r == [d EXCEPT !.cursor = d.preBracketCursor]
                  j == IF d.pendingBracket = "]"
                       THEN jumpToNextComment(r) ELSE jumpToPrevComment(r)
              IN  Ret([j EXCEPT !.pendingBracket = NoBracket], 0)
         ELSE updateKey([d EXCEPT !.pendingBracket = NoBracket], key)
    ELSE updateKey(d, key)

(***************************************************************************)
(* The viewer driven directly: any sequence of SetDiff, RefreshDiff,       *)
(* SetCommentLines, SetSize and key events from a new viewer.              *)
(***************************************************************************)
NavKeys == {"j", "down", "k", "up", "G", "g", "ctrl+d", "ctrl+u", "ctrl+f", "ctrl+b",
            "}", "{", "]", "[", "c", "x"}
Heights == 0..MaxHeight
ViewDiffs == DiffsUpTo(MaxViewRows)
MarkerSets(n, k) == {A \in SUBSET (0..(n - 1)) : Cardinality(A) <= k}

\* What is remembered of the last operation: its name, its key, the key before
\* it, the cursor, offset and row count it started from, and the cursor the
\* operation before it started from.
NoHist ==
    [op |-> "new", key |-> "", prevKey |-> "", preCursor |-> 0, preOffset |-> 0,
     preLen |-> 0, prevCursor |-> 0, preFocus |-> "", reqPath |-> "", selPath |-> "",
     diffFetched |-> FALSE, preLines |-> <<>>, preSel |-> <<>>, lastNormal |-> ""]

\* The viewer on its own has no root model around it.
NoRoot == [focus |-> ""]

\* One operation: the new viewer, the command returned, whether it panicked.
\* A panic ends the program: the viewer is left as it was.  The offset before
\* the operation, and the key and the cursor of the operation before it, are
\* remembered only where `full`.
Step(full, op, key, r) ==
    /\ ~crashed
    /\ dv' = IF r.panic THEN dv ELSE r.dv
    /\ cmd' = r.cmd
    /\ crashed' = r.panic
    /\ hist' = [NoHist EXCEPT !.op = op, !.key = key,
                !.prevKey = IF full THEN hist.key ELSE "",
                !.preCursor = dv.cursor,
                !.preOffset = IF full THEN dv.offset ELSE 0,
                !.preLen = Len(dv.lines),
                !.prevCursor = IF full THEN hist.preCursor ELSE 0]
    /\ UNCHANGED <<root, msgs, raw, parsed, unit>>

DoSetDiff == \E fd \in ViewDiffs : Step(FALSE, "SetDiff", "", Ret(SetDiff(dv, fd), 0))
DoRefreshDiff ==
    \E fd \in ViewDiffs : Step(FALSE, "RefreshDiff", "", Ret(RefreshDiff(dv, fd), 0))
DoSetCommentLines ==
    \E A \in MarkerSets(MaxViewRows, MaxViewComments) :
        Step(FALSE, "SetCommentLines", "", Ret(SetCommentLines(dv, A), 0))
DoSetSize == \E h \in Heights : Step(FALSE, "SetSize", "", Ret(SetSize(dv, h), 0))
DoNavKey == \E key \in NavKeys : Step(FALSE, "key", key, Update(dv, key))

Init ==
    /\ dv \in {NewDiffViewer(h) : h \in Heights}
    /\ cmd = 0
    /\ crashed = FALSE
    /\ hist = NoHist
    /\ root = NoRoot
    /\ msgs = {}
    /\ raw = NoRaw
    /\ parsed = NotParsed
    /\ unit = NoUnit

Next ==
    \/ DoSetDiff
    \/ DoRefreshDiff
    \/ DoSetCommentLines
    \/ DoSetSize
    \/ DoNavKey

Spec == Init /\ [][Next]_vars

(***************************************************************************)
(* The viewer with selection and search: SetDiff, RefreshDiff, SetSearch   *)
(* and the keys that move the cursor, select and search.                   *)
(***************************************************************************)
SelectKeys == {"j", "k", "G", "g", "v", "esc", "n", "N"}
Terms == {<<>>, <<"a">>, <<"b">>}

SelSetDiff == \E fd \in ViewDiffs : Step(FALSE, "SetDiff", "", Ret(SetDiff(dv, fd), 0))
SelRefreshDiff ==
    \E fd \in ViewDiffs : Step(FALSE, "RefreshDiff", "", Ret(RefreshDiff(dv, fd), 0))
SelSetSearch == \E term \in Terms : Step(FALSE, "SetSearch", "", Ret(SetSearch(dv, term), 0))
SelKey == \E key \in SelectKeys : Step(FALSE, "key", key, Update(dv, key))

InitSelect ==
    /\ dv = NewDiffViewer(MaxHeight)
    /\ cmd = 0
    /\ crashed = FALSE
    /\ hist = NoHist
    /\ root = NoRoot
    /\ msgs = {}
    /\ raw = NoRaw
    /\ parsed = NotParsed
    /\ unit = NoUnit

NextSelect ==
    \/ SelSetDiff
    \/ SelRefreshDiff
    \/ SelSetSearch
    \/ SelKey

SpecSelect == InitSelect /\ [][NextSelect]_vars

(***************************************************************************)
(* A single bracket sequence: a viewer showing any diff of at most MaxRows *)
(* rows, with any markers, the cursor moved to any row with "j", then "]"  *)
(* or "[", then any one key.                                               *)
(***************************************************************************)
RECURSIVE Moved(_, _)
\* The viewer after p presses of "j".
Moved(d, p) == IF p = 0 THEN d ELSE Moved(Update(d, "j").dv, p - 1)

\* A viewer of height h given the diff fd and the markers A, p rows down.
Placed(h, fd, A, p) == Moved(SetCommentLines(SetDiff(NewDiffViewer(h), fd), A), p)

BracketKeys == {"]", "["}
AfterKeys == {"c", "j", "x"}

JumpBracket ==
    /\ hist.op = "new"
    /\ \E key \in BracketKeys : Step(TRUE, "key", key, Update(dv, key))

JumpAfter ==
    /\ hist.op = "key" /\ hist.key \in BracketKeys
    /\ \E key \in AfterKeys : Step(TRUE, "key", key, Update(dv, key))

InitJump ==
    /\ \E fd \in DiffsUpTo(MaxRows), h \in Heights :
         \E p \in 0..(IF flattenLines(fd) = <<>> THEN 0 ELSE Len(flattenLines(fd)) - 1),
            A \in MarkerSets(Len(flattenLines(fd)), MaxComments) :
                dv = Placed(h, fd, A, p)
    /\ cmd = 0
    /\ crashed = FALSE
    /\ hist = NoHist
    /\ root = NoRoot
    /\ msgs = {}
    /\ raw = NoRaw
    /\ parsed = NotParsed
    /\ unit = NoUnit

NextJump ==
    \/ JumpBracket
    \/ JumpAfter

SpecJump == InitJump /\ [][NextJump]_vars

(***************************************************************************)
(* One operation on a prepared viewer: a viewer showing any diff of at     *)
(* most MaxViewRows rows with the cursor on any row is given, in this      *)
(* order and each at most once, a search, a "v", a "tab", another diff (by *)
(* SetDiff or by RefreshDiff) and one key that moves the cursor; then one  *)
(* last operation is applied to it.                                        *)
(***************************************************************************)
\* The order of the preparing operations; the last operation has rank 6.
Rank(op) ==
    CASE op = "new" -> 0
      [] op = "prepSearch" -> 1
      [] op = "prepVisual" -> 2
      [] op = "prepTab" -> 3
      [] op = "prepReload" -> 4
      [] op = "prepMove" -> 5
      [] OTHER -> 6

\* One operation, remembering the cursor, the offset, the row count and the
\* selection state (visualMode, visualStart, sideBySide) it started from.
StepView(op, key, r) ==
    /\ ~crashed
    /\ dv' = IF r.panic THEN dv ELSE r.dv
    /\ cmd' = r.cmd
    /\ crashed' = r.panic
    /\ hist' = [NoHist EXCEPT !.op = op, !.key = key,
                !.preCursor = dv.cursor, !.preOffset = dv.offset,
                !.preLen = Len(dv.lines),
                !.preSel = <<dv.visualMode, dv.visualStart, dv.sideBySide>>]
    /\ UNCHANGED <<root, msgs, raw, parsed, unit>>

ReloadDiffs == DiffsUpTo(MaxReloadRows)
MoveKeys == {"j", "G", "n", "N"}
LastKeys == {"n", "N", "}", "{"}

PrepSearch ==
    /\ Rank(hist.op) < 1
    /\ \E term \in Terms : StepView("prepSearch", "", Ret(SetSearch(dv, term), 0))

PrepVisual ==
    /\ Rank(hist.op) < 2
    /\ StepView("prepVisual", "v", Update(dv, "v"))

PrepTab ==
    /\ Rank(hist.op) < 3
    /\ StepView("prepTab", "tab", Update(dv, "tab"))

PrepReload ==
    /\ Rank(hist.op) < 4
    /\ \E fd \in ReloadDiffs :
          \/ StepView("prepReload", "", Ret(SetDiff(dv, fd), 0))
          \/ StepView("prepReload", "", Ret(RefreshDiff(dv, fd), 0))

PrepMove ==
    /\ Rank(hist.op) < 5
    /\ \E key \in MoveKeys : StepView("prepMove", key, Update(dv, key))

LastKey ==
    /\ Rank(hist.op) < 6
    /\ \E key \in LastKeys : StepView("key", key, Update(dv, key))

LastSetSearch ==
    /\ Rank(hist.op) < 6
    /\ \E term \in Terms : StepView("SetSearch", "", Ret(SetSearch(dv, term), 0))

LastRefreshDiff ==
    /\ Rank(hist.op) < 6
    /\ \E fd \in ViewDiffs : StepView("RefreshDiff", "", Ret(RefreshDiff(dv, fd), 0))

InitView ==
    /\ \E fd \in ViewDiffs, h \in Heights :
         \E p \in 0..(IF flattenLines(fd) = <<>> THEN 0 ELSE Len(flattenLines(fd)) - 1) :
                dv = Placed(h, fd, {}, p)
    /\ cmd = 0
    /\ crashed = FALSE
    /\ hist = NoHist
    /\ root = NoRoot
    /\ msgs = {}
    /\ raw = NoRaw
    /\ parsed = NotParsed
    /\ unit = NoUnit

NextView ==
    \/ PrepSearch
    \/ PrepVisual
    \/ PrepTab
    \/ PrepReload
    \/ PrepMove
    \/ LastKey
    \/ LastSetSearch
    \/ LastRefreshDiff

SpecView == InitView /\ [][NextView]_vars

(***************************************************************************)
(* FileList                                                                *)
(***************************************************************************)
\* git.ChangedFile, and its zero value.
ChangedFile(path) == [Path |-> path, Status |-> "M"]
NoFile == [Path |-> "", Status |-> ""]

NewFileList(files) == [files |-> files, cursor |-> 0]

\* SelectedFile returns the currently selected file.
SelectedFile(fl) ==
    IF fl.cursor >= 0 /\ fl.cursor < Len(fl.files) THEN fl.files[fl.cursor + 1] ELSE NoFile

\* SelectNext and SelectPrev return whether the cursor moved.
SelectNext(fl) ==
    IF fl.cursor >= Len(fl.files) - 1 THEN [fl |-> fl, ok |-> FALSE]
    ELSE [fl |-> [fl EXCEPT !.cursor = fl.cursor + 1], ok |-> TRUE]

SelectPrev(fl) ==
    IF fl.cursor <= 0 THEN [fl |-> fl, ok |-> FALSE]
    ELSE [fl |-> [fl EXCEPT !.cursor = fl.cursor - 1], ok |-> TRUE]

\* FileList.Update for a tea.KeyMsg.
FileListUpdate(fl, key) ==
    CASE key \in {"j", "down"} ->
            IF fl.cursor < Len(fl.files) - 1 THEN [fl EXCEPT !.cursor = fl.cursor + 1] ELSE fl
      [] key \in {"k", "up"} ->
            IF fl.cursor > 0 THEN [fl EXCEPT !.cursor = fl.cursor - 1] ELSE fl
      [] key = "G" -> [fl EXCEPT !.cursor = Len(fl.files) - 1]
      [] key = "g" -> [fl EXCEPT !.cursor = 0]
      [] OTHER -> fl

\* SetFiles keeps the cursor on the selected path if the new list has it, and
\* otherwise clamps the cursor to the end of the new list.
SetFiles(fl, files) ==
    IF Len(files) = 0 THEN [fl EXCEPT !.files = files, !.cursor = 0]
    ELSE LET selectedPath == IF fl.cursor >= 0 /\ fl.cursor < Len(fl.files)
                             THEN fl.files[fl.cursor + 1].Path ELSE ""
             found == {i \in DOMAIN files : files[i].Path = selectedPath}
         IN  IF found # {}
             THEN [fl EXCEPT !.files = files,
                             !.cursor = (CHOOSE i \in found : \A j \in found : i <= j) - 1]
             ELSE [fl EXCEPT !.files = files,
                             !.cursor = IF fl.cursor >= Len(files)
                                        THEN Len(files) - 1 ELSE fl.cursor]

(***************************************************************************)
(* comment.Store and CommentInput                                          *)
(***************************************************************************)
\* A comment, by the fields the root model reads: its key and its body.
Comment(filePath, startLine, body) ==
    [FilePath |-> filePath, StartLine |-> startLine, Body |-> body]

\* Store.Add replaces the comment of the same file and line, or appends.
Add(comments, c) ==
    {o \in comments : ~(o.FilePath = c.FilePath /\ o.StartLine = c.StartLine)} \cup {c}

\* Store.Get as the body of the comment found, empty where there is none.
Get(comments, filePath, line) ==
    LET hit == {c \in comments : c.FilePath = filePath /\ c.StartLine = line} IN
    IF hit = {} THEN <<>> ELSE (CHOOSE c \in hit : TRUE).Body

\* Store.Delete removes the comment of the file and line, if there is one.
Delete(comments, filePath, startLine) ==
    {o \in comments : ~(o.FilePath = filePath /\ o.StartLine = startLine)}

ForFile(comments, filePath) == {c \in comments : c.FilePath = filePath}

NewCommentInput == [active |-> FALSE, filePath |-> "", lineNo |-> 0, value |-> <<>>]

\* Activate shows the input, pre-filled with the existing comment.
Activate(ci, filePath, lineNo, existing) ==
    [ci EXCEPT !.active = TRUE, !.filePath = filePath, !.lineNo = lineNo, !.value = existing]

(***************************************************************************)
(* comment.Store as it is kept: the slice of comments and the map from a   *)
(* key to the 0-based index of its comment in the slice.                   *)
(***************************************************************************)
\* commentKey
StoreKey(filePath, startLine) == <<filePath, startLine>>

\* NewStore
NewStore == [comments |-> <<>>, byKey |-> <<>>]

\* Store.Add without the replacement of the comment that has the same key.
Store_Add_noReplace(s, c) ==
    LET key == StoreKey(c.FilePath, c.StartLine) IN
    IF key \in DOMAIN s.byKey THEN s
    ELSE [comments |-> Append(s.comments, c),
          byKey |-> [k \in DOMAIN s.byKey \cup {key} |->
                        IF k = key THEN Len(s.comments) ELSE s.byKey[k]]]

\* Store.Add
Store_Add(s, c) ==
    LET key == StoreKey(c.FilePath, c.StartLine) IN
    IF key \in DOMAIN s.byKey
    THEN [s EXCEPT !.comments[s.byKey[key] + 1] = c]
    ELSE [comments |-> Append(s.comments, c),
          byKey |-> [k \in DOMAIN s.byKey \cup {key} |->
                        IF k = key THEN Len(s.comments) ELSE s.byKey[k]]]

\* Store.Delete: the last comment takes the place of the deleted one.
Store_Delete(s, filePath, startLine) ==
    LET key == StoreKey(filePath, startLine) IN
    IF key \notin DOMAIN s.byKey THEN s
    ELSE LET idx == s.byKey[key]
             last == Len(s.comments) - 1
             moved == s.comments[last + 1]
             movedKey == StoreKey(moved.FilePath, moved.StartLine)
             comments1 == IF idx # last THEN [s.comments EXCEPT ![idx + 1] = moved]
                          ELSE s.comments
             byKey1 == IF idx # last
                       THEN [k \in DOMAIN s.byKey \cup {movedKey} |->
                                IF k = movedKey THEN idx ELSE s.byKey[k]]
                       ELSE s.byKey
         IN [comments |-> SubSeq(comments1, 1, last),
             byKey |-> [k \in DOMAIN byKey1 \ {key} |-> byKey1[k]]]

\* Store.Get: the comment found, and whether the pointer returned is nil.
Store_Get(s, filePath, line) ==
    LET key == StoreKey(filePath, line) IN
    IF key \notin DOMAIN s.byKey THEN [nil |-> TRUE, c |-> Comment("", 0, <<>>)]
    ELSE [nil |-> FALSE, c |-> s.comments[s.byKey[key] + 1]]

(***************************************************************************)
(* Messages of the root model.  Every message has the same fields: its     *)
(* type, a path and a number.                                              *)
(***************************************************************************)
Msg(type, path, n) == [type |-> type, path |-> path, n |-> n]
NoMsg == Msg("none", "", 0)
tickRefreshMsg == Msg("tickRefresh", "", 0)
navigateFileMsg(direction) == Msg("navigateFile", "", direction)
CommentSubmitMsg(filePath, lineNo) == Msg("CommentSubmit", filePath, lineNo)
CommentCancelMsg == Msg("CommentCancel", "", 0)
\* The command returned by refreshCmd, in flight with the path it captured.
refreshCmd(currentPath) == Msg("refresh", currentPath, 0)
\* The message of tea.Quit.
QuitMsg == Msg("quit", "", 0)
OutputSelectMsg == Msg("OutputSelect", "", 0)
OutputCancelMsg == Msg("OutputCancel", "", 0)

\* The text a user types into the comment input.
TypedBody == <<"x">>

\* CommentInput.Update for a tea.KeyMsg: the input and the message of the
\* command returned.
CommentInputUpdate(ci, key) ==
    IF ~ci.active THEN [ci |-> ci, msg |-> NoMsg]
    ELSE CASE key = "esc" -> [ci |-> [ci EXCEPT !.active = FALSE], msg |-> CommentCancelMsg]
           [] key = "enter" ->
                IF ci.value = <<>>
                THEN [ci |-> [ci EXCEPT !.active = FALSE], msg |-> CommentCancelMsg]
                ELSE [ci |-> [ci EXCEPT !.active = FALSE],
                      msg |-> CommentSubmitMsg(ci.filePath, ci.lineNo)]
           [] OTHER -> [ci |-> [ci EXCEPT !.value = TypedBody], msg |-> NoMsg]

(***************************************************************************)
(* Accessors of the DiffViewer that the root model uses.                   *)
(***************************************************************************)
CurrentLine(d) ==
    IF d.cursor >= 0 /\ d.cursor < Len(d.lines) THEN d.lines[d.cursor + 1].line ELSE NilLine

\* The line number a comment is keyed by: old for removed lines, else new.
LineNoOf(l) == IF l.nil THEN 0 ELSE IF l.Type = LineRemoved THEN l.OldLineNo ELSE l.NewLineNo

CurrentLineNo(d) == LineNoOf(CurrentLine(d))

LineNoAt(d, idx) ==
    IF idx >= 0 /\ idx < Len(d.lines) THEN LineNoOf(d.lines[idx + 1].line) ELSE 0

\* VisualRange without the swap of start and end.
VisualRange_noSwap(d) == [start |-> d.visualStart, end |-> d.cursor]

\* VisualRange returns the start and end of the visual selection.
VisualRange(d) ==
    IF d.visualStart > d.cursor THEN [start |-> d.cursor, end |-> d.visualStart]
    ELSE [start |-> d.visualStart, end |-> d.cursor]

(***************************************************************************)
(* RootModel, reviewing uncommitted changes                                *)
(***************************************************************************)
focusFileList == "fileList"
focusDiffViewer == "diffViewer"
focusCommentInput == "commentInput"
focusOutputSelect == "outputSelect"
modeUncommitted == "uncommitted"

\* What git reports.  UncommittedFiles: an error, or the changed files in
\* path order.  UncommittedFileDiff(path): an error, or a diff of that path.
GitFiles ==
    {<<>>, <<ChangedFile("a.go")>>, <<ChangedFile("b.go")>>,
     <<ChangedFile("a.go"), ChangedFile("b.go")>>}
GitFilesResults == {[err |-> TRUE, files |-> <<>>]} \cup {[err |-> FALSE, files |-> f] : f \in GitFiles}
\* The diffs are those of at most MaxRootRows rows that are empty or one hunk
\* of context lines and a last, added line.
RootShapes ==
    {s \in ShapesUpTo(MaxRootRows) :
        s # <<>> => /\ Len(s) >= 2
                    /\ s[Len(s)] = LineAdded
                    /\ \A i \in 2..(Len(s) - 1) : s[i] = LineContext}
GitDiffResults ==
    {[err |-> TRUE, kinds |-> <<>>]} \cup {[err |-> FALSE, kinds |-> s] : s \in RootShapes}

\* loadFileDiff in modeUncommitted: the diff git returned for the path.
loadFileDiff(path, g) == IF g.err THEN NilDiff ELSE MkDiff(path, g.kinds)

\* updateCommentMarkers marks every code row whose line number is the start
\* line of a comment on the selected file.
updateCommentMarkers(m, d) ==
    LET sel == SelectedFile(m.fileList)
        fileComments == ForFile(m.comments, sel.Path)
        markers == {i \in 0..(Len(d.lines) - 1) :
                        /\ ~d.lines[i + 1].line.nil
                        /\ \E c \in fileComments : LineNoOf(d.lines[i + 1].line) = c.StartLine}
    IN  SetCommentLines(d, markers)

\* `if fd, err := m.loadFileDiff(sel.Path); err == nil { SetDiff; updateCommentMarkers }`
loadSelected(m, d, g) ==
    IF g.err THEN d
    ELSE updateCommentMarkers(m, SetDiff(d, loadFileDiff(SelectedFile(m.fileList).Path, g)))

\* comment.Format: empty with no comments, else a text that starts with a
\* heading.
Format(comments) == IF comments = {} THEN <<>> ELSE <<"#">>

\* The output selector over the targets detected: the clipboard and a file
\* are always among them.
DetectedTargets == 2
NewOutputSelector(targets) == [targets |-> targets, cursor |-> 0]

\* OutputSelector.Update for a tea.KeyMsg.
OutputSelectorUpdate(os, key) ==
    CASE key = "j" -> [os |-> IF os.cursor < os.targets - 1 THEN [os EXCEPT !.cursor = @ + 1] ELSE os,
                       msg |-> NoMsg]
      [] key = "k" -> [os |-> IF os.cursor > 0 THEN [os EXCEPT !.cursor = @ - 1] ELSE os,
                       msg |-> NoMsg]
      [] key \in {"q", "esc"} -> [os |-> os, msg |-> OutputCancelMsg]
      [] key = "enter" -> [os |-> os, msg |-> IF os.targets > 0 THEN OutputSelectMsg ELSE NoMsg]
      [] OTHER -> [os |-> os, msg |-> NoMsg]

\* NewRootModelUncommitted, without the viewer it creates.
NewRootModelUncommitted(files) ==
    [files |-> files, fileList |-> NewFileList(files), focus |-> focusFileList,
     mode |-> modeUncommitted, refreshInProgress |-> FALSE, comments |-> {},
     commentInput |-> NewCommentInput, quitting |-> FALSE, finished |-> FALSE,
     output |-> <<>>, pendingZ |-> FALSE, showHelp |-> FALSE, searching |-> FALSE,
     searchInput |-> <<>>, outputSelector |-> NewOutputSelector(0)]

\* What the root model's Update returns: the model, its viewer, the message of
\* the command returned, what the viewer's own Update returned, and whether
\* the call panicked.
RootRet(m, d, msg) == [m |-> m, dv |-> d, msg |-> msg, cmd |-> 0, panic |-> FALSE]

\* handleKeyMsg, case "c" with the focus on the diff viewer.
handleCommentKey(m, d) ==
    LET sel == SelectedFile(m.fileList) IN
    IF d.visualMode
    THEN RootRet([m EXCEPT !.commentInput =
                        Activate(@, sel.Path, LineNoAt(d, VisualRange(d).start), <<>>),
                    !.focus = focusCommentInput],
                 [d EXCEPT !.visualMode = FALSE], NoMsg)
    ELSE IF ~CurrentLine(d).nil
    THEN RootRet([m EXCEPT !.commentInput =
                        Activate(@, sel.Path, CurrentLineNo(d),
                                 Get(m.comments, sel.Path, CurrentLineNo(d))),
                    !.focus = focusCommentInput], d, NoMsg)
    ELSE IF sel.Status = "B"
    THEN RootRet([m EXCEPT !.commentInput =
                        Activate(@, sel.Path, 0, Get(m.comments, sel.Path, 0)),
                    !.focus = focusCommentInput], d, NoMsg)
    ELSE RootRet(m, d, NoMsg)

\* handleKeyMsg, the routing of a key to the focused sub-model.
routeKey(m, d, key, g) ==
    IF m.focus = focusFileList
    THEN LET m1 == [m EXCEPT !.fileList = FileListUpdate(@, key)] IN
         IF key \in {"j", "k", "G", "g"} THEN RootRet(m1, loadSelected(m1, d, g), NoMsg)
         ELSE RootRet(m1, d, NoMsg)
    ELSE IF m.focus = focusDiffViewer
    THEN LET r == Update(d, key) IN
         [m |-> m, dv |-> r.dv, cmd |-> r.cmd, panic |-> r.panic,
          msg |-> IF r.cmd = 0 THEN NoMsg ELSE navigateFileMsg(r.cmd)]
    ELSE RootRet(m, d, NoMsg)

\* handleKeyMsg, the switch on the key: the keys the root handles itself,
\* then the routing.
handleKeySwitch(m, d, key, g) ==
    CASE key = "q" -> RootRet([m EXCEPT !.quitting = TRUE], d, QuitMsg)
      [] key = "?" -> RootRet([m EXCEPT !.showHelp = ~@], d, NoMsg)
      [] key = "/" ->
            IF m.focus = focusDiffViewer
            THEN RootRet([m EXCEPT !.searching = TRUE, !.searchInput = <<>>], d, NoMsg)
            ELSE RootRet(m, d, NoMsg)
      [] key = "h" ->
            RootRet(IF m.focus = focusDiffViewer THEN [m EXCEPT !.focus = focusFileList] ELSE m,
                    d, NoMsg)
      [] key \in {"l", "enter"} ->
            IF m.focus = focusFileList
            THEN RootRet([m EXCEPT !.focus = focusDiffViewer], loadSelected(m, d, g), NoMsg)
            ELSE RootRet(m, d, NoMsg)
      [] key = "c" -> IF m.focus = focusDiffViewer THEN handleCommentKey(m, d) ELSE RootRet(m, d, NoMsg)
      [] key \in {"ctrl+d", "ctrl+u"} ->
            IF m.focus = focusDiffViewer
            THEN LET r == Update(d, key) IN
                 [m |-> m, dv |-> r.dv, cmd |-> 0, panic |-> r.panic, msg |-> NoMsg]
            ELSE RootRet(m, d, NoMsg)
      [] key = "D" ->
            IF m.focus = focusDiffViewer
            THEN LET m1 == [m EXCEPT !.comments =
                                Delete(@, SelectedFile(m.fileList).Path, CurrentLineNo(d))]
                 IN  RootRet(m1, updateCommentMarkers(m1, d), NoMsg)
            ELSE RootRet(m, d, NoMsg)
      [] OTHER -> routeKey(m, d, key, g)

\* The second "Z" of the sequence: without comments the review is finished
\* at once, with comments the output selector is shown.
finishKey(m, d) ==
    LET m1 == [m EXCEPT !.pendingZ = FALSE, !.output = Format(m.comments)] IN
    IF m1.output = <<>> THEN RootRet([m1 EXCEPT !.finished = TRUE], d, QuitMsg)
    ELSE RootRet([m1 EXCEPT !.outputSelector = NewOutputSelector(DetectedTargets),
                            !.focus = focusOutputSelect], d, NoMsg)

\* handleKeyMsg with the pending "Z" kept by the other keys.
handleKeyMsg_keepPending(m, d, key, g) ==
    IF m.showHelp
    THEN RootRet(IF key \in {"?", "esc"} THEN [m EXCEPT !.showHelp = FALSE] ELSE m, d, NoMsg)
    ELSE IF key = "Z"
    THEN IF m.pendingZ THEN finishKey(m, d) ELSE RootRet([m EXCEPT !.pendingZ = TRUE], d, NoMsg)
    ELSE handleKeySwitch(m, d, key, g)

\* handleKeyMsg: the help overlay, the ZZ sequence, then the switch on the key.
handleKeyMsg(m, d, key, g) ==
    IF m.showHelp
    THEN RootRet(IF key \in {"?", "esc"} THEN [m EXCEPT !.showHelp = FALSE] ELSE m, d, NoMsg)
    ELSE IF key = "Z"
    THEN IF m.pendingZ THEN finishKey(m, d) ELSE RootRet([m EXCEPT !.pendingZ = TRUE], d, NoMsg)
    ELSE handleKeySwitch([m EXCEPT !.pendingZ = FALSE], d, key, g)

\* The longest text typed into the search input.
MaxTermLen == 1

\* The keys that are no runes.
SpecialKeys == {"enter", "esc", "tab", "ctrl+d", "ctrl+u"}

\* Update for a tea.KeyMsg while the search input is shown: a rune is typed
\* into the input.
updateSearchKey(m, d, key) ==
    CASE key = "esc" -> RootRet([m EXCEPT !.searching = FALSE], d, NoMsg)
      [] key = "enter" -> RootRet([m EXCEPT !.searching = FALSE], SetSearch(d, m.searchInput), NoMsg)
      [] OTHER -> RootRet(IF key \notin SpecialKeys /\ Len(m.searchInput) < MaxTermLen
                          THEN [m EXCEPT !.searchInput = Append(@, key)] ELSE m, d, NoMsg)

\* Update for a tea.KeyMsg: the comment input, the output selector and the
\* search input have priority, in this order, when they are active.
updateKeyMsg(m, d, key, g) ==
    IF m.focus = focusCommentInput
    THEN LET r == CommentInputUpdate(m.commentInput, key) IN
         RootRet([m EXCEPT !.commentInput = r.ci], d, r.msg)
    ELSE IF m.focus = focusOutputSelect
    THEN LET r == OutputSelectorUpdate(m.outputSelector, key) IN
         RootRet([m EXCEPT !.outputSelector = r.os], d, r.msg)
    ELSE IF m.searching THEN updateSearchKey(m, d, key)
    ELSE handleKeyMsg(m, d, key, g)

\* Update for OutputSelectMsg: the delivery fails or the review is finished.
updateOutputSelect(m, d, err) ==
    IF err THEN RootRet(m, d, NoMsg) ELSE RootRet([m EXCEPT !.finished = TRUE], d, QuitMsg)

\* Update for OutputCancelMsg.
updateOutputCancel(m, d) == RootRet([m EXCEPT !.quitting = TRUE], d, QuitMsg)

\* Update for tickRefreshMsg without the flag being set.
updateTick_noFlag(m, d) ==
    IF m.mode # modeUncommitted THEN RootRet(m, d, NoMsg)
    ELSE IF m.refreshInProgress THEN RootRet(m, d, tickRefreshMsg)
    ELSE RootRet(m, d, refreshCmd(IF Len(m.files) > 0 THEN SelectedFile(m.fileList).Path ELSE ""))

\* Update for tickRefreshMsg.
updateTick(m, d) ==
    IF m.mode # modeUncommitted THEN RootRet(m, d, NoMsg)
    ELSE IF m.refreshInProgress THEN RootRet(m, d, tickRefreshMsg)
    ELSE RootRet([m EXCEPT !.refreshInProgress = TRUE], d,
                 refreshCmd(IF Len(m.files) > 0 THEN SelectedFile(m.fileList).Path ELSE ""))

\* The refreshResultMsg the command of refreshCmd sends, from what git
\* reports when it runs.
refreshResultMsg(currentPath, gf, g) ==
    IF gf.err THEN [err |-> TRUE, files |-> <<>>, diff |-> NilDiff, requestedPath |-> ""]
    ELSE [err |-> FALSE, files |-> gf.files, requestedPath |-> currentPath,
          diff |-> IF currentPath # "" /\ \E i \in DOMAIN gf.files : gf.files[i].Path = currentPath
                   THEN loadFileDiff(currentPath, g) ELSE NilDiff]

\* Update for refreshResultMsg with the fetched diff applied whenever there is one.
updateRefreshResult_noPathCheck(m, d, msg) ==
    LET m1 == [m EXCEPT !.refreshInProgress = FALSE] IN
    IF msg.err THEN RootRet(m1, d, tickRefreshMsg)
    ELSE LET m2 == [m1 EXCEPT !.files = msg.files, !.fileList = SetFiles(@, msg.files)]
             currentPath == IF Len(m2.files) > 0 THEN SelectedFile(m2.fileList).Path ELSE ""
         IN  IF ~msg.diff.nil
             THEN RootRet(m2, updateCommentMarkers(m2, RefreshDiff(d, msg.diff)), tickRefreshMsg)
             ELSE IF currentPath = "" THEN RootRet(m2, RefreshDiff(d, NilDiff), tickRefreshMsg)
             ELSE RootRet(m2, d, tickRefreshMsg)

\* Update for refreshResultMsg with no next tick scheduled after an error.
updateRefreshResult_noTickOnError(m, d, msg) ==
    LET m1 == [m EXCEPT !.refreshInProgress = FALSE] IN
    IF msg.err THEN RootRet(m1, d, NoMsg)
    ELSE LET m2 == [m1 EXCEPT !.files = msg.files, !.fileList = SetFiles(@, msg.files)]
             currentPath == IF Len(m2.files) > 0 THEN SelectedFile(m2.fileList).Path ELSE ""
         IN  IF ~msg.diff.nil /\ msg.requestedPath = currentPath
             THEN RootRet(m2, updateCommentMarkers(m2, RefreshDiff(d, msg.diff)), tickRefreshMsg)
             ELSE IF currentPath = "" THEN RootRet(m2, RefreshDiff(d, NilDiff), tickRefreshMsg)
             ELSE RootRet(m2, d, tickRefreshMsg)

\* Update for refreshResultMsg.
updateRefreshResult(m, d, msg) ==
    LET m1 == [m EXCEPT !.refreshInProgress = FALSE] IN
    IF msg.err THEN RootRet(m1, d, tickRefreshMsg)
    ELSE LET m2 == [m1 EXCEPT !.files = msg.files, !.fileList = SetFiles(@, msg.files)]
             currentPath == IF Len(m2.files) > 0 THEN SelectedFile(m2.fileList).Path ELSE ""
         IN  IF ~msg.diff.nil /\ msg.requestedPath = currentPath
             THEN RootRet(m2, updateCommentMarkers(m2, RefreshDiff(d, msg.diff)), tickRefreshMsg)
             ELSE IF currentPath = "" THEN RootRet(m2, RefreshDiff(d, NilDiff), tickRefreshMsg)
             ELSE RootRet(m2, d, tickRefreshMsg)

\* Update for CommentSubmitMsg.
updateCommentSubmit(m, d, msg) ==
    LET m1 == [m EXCEPT !.comments = Add(@, Comment(msg.path, msg.n, TypedBody)),
                        !.focus = focusDiffViewer]
    IN  RootRet(m1, updateCommentMarkers(m1, d), NoMsg)

\* Update for CommentCancelMsg.
updateCommentCancel(m, d) == RootRet([m EXCEPT !.focus = focusDiffViewer], d, NoMsg)

\* Update for navigateFileMsg.
updateNavigateFile(m, d, direction, g) ==
    LET s == IF direction > 0 THEN SelectNext(m.fileList) ELSE SelectPrev(m.fileList)
        m1 == [m EXCEPT !.fileList = s.fl]
    IN  IF s.ok /\ ~g.err
        THEN LET d1 == SetDiff(d, loadFileDiff(SelectedFile(m1.fileList).Path, g))
                 d2 == IF direction < 0 THEN SetCursorToEnd(d1) ELSE d1
             IN  RootRet(m1, updateCommentMarkers(m1, d2), NoMsg)
        ELSE RootRet(m1, d, NoMsg)

(***************************************************************************)
(* The running application: the root model created for uncommitted         *)
(* changes, given keys and the messages of its own commands in any order.  *)
(* SpecRefresh is the application with the live refresh and the keys that  *)
(* move the selection and the focus; SpecReview is the application with    *)
(* the keys that move in a diff and comment on it, and no refresh.         *)
(***************************************************************************)
RefreshKeys == {"j", "k", "l", "h", "]", "["}
ReviewKeys == {"j", "k", "l", "]", "[", "c", "x", "enter"}
\* The terminal height: the viewer is two rows lower.
RootHeight == MaxHeight + 2
\* The keys that are remembered by name; any other is remembered as "".
NamedKeys == {"]", "[", "c"}

\* One Update of the root model: `rest` is what stays in flight.  A command
\* is issued only while no command with the same message is in flight.
RootStep(r, rest, h) ==
    /\ ~crashed
    /\ r.msg \notin rest
    /\ dv' = IF r.panic THEN dv ELSE r.dv
    /\ root' = IF r.panic THEN root ELSE r.m
    /\ cmd' = r.cmd
    /\ crashed' = r.panic
    /\ msgs' = IF r.panic \/ r.msg = NoMsg THEN rest ELSE rest \cup {r.msg}
    /\ hist' = h
    /\ UNCHANGED <<raw, parsed, unit>>

\* Whether the key makes the root model ask git for the diff of a file: with
\* no file selected the path asked for is empty, and git reports an error.
LoadsDiff(m, key) ==
    /\ m.focus = focusFileList /\ key \in {"l", "enter", "j", "k", "G", "g"}
    /\ Len(m.fileList.files) > 0

\* A key press.  The cursor a bracket key starts from is remembered until the
\* key after it, and "c" remembers the key before it and the focus it found.
RootKey(keys) ==
    \E key \in keys :
    \E g \in IF LoadsDiff(root, key) THEN GitDiffResults ELSE {[err |-> TRUE, kinds |-> <<>>]} :
        LET r == updateKeyMsg(root, dv, key, g) IN
        /\ r.msg.type = "CommentSubmit"
              => Cardinality(Add(root.comments, Comment(r.msg.path, r.msg.n, TypedBody)))
                    <= MaxRootComments
        /\ RootStep(r, msgs,
              [NoHist EXCEPT !.op = "key",
                  !.key = IF key \in NamedKeys THEN key ELSE "",
                  !.prevKey = IF key = "c" /\ hist.op = "key" THEN hist.key ELSE "",
                  !.preCursor = IF key \in BracketKeys THEN dv.cursor ELSE 0,
                  !.prevCursor = IF key = "c" THEN hist.preCursor ELSE 0,
                  !.preFocus = IF key = "c" THEN root.focus ELSE ""])

RootTick ==
    /\ tickRefreshMsg \in msgs
    /\ RootStep(updateTick(root, dv), msgs \ {tickRefreshMsg}, [NoHist EXCEPT !.op = "tick"])

\* The command of refreshCmd runs and its result is processed.
RootRefreshResult ==
    \E c \in msgs, gf \in GitFilesResults, g \in GitDiffResults :
        /\ c.type = "refresh"
        /\ LET msg == refreshResultMsg(c.path, gf, g) IN
           RootStep(updateRefreshResult(root, dv, msg), msgs \ {c},
              [NoHist EXCEPT !.op = "refreshResult", !.reqPath = c.path,
                  !.selPath = SelectedFile(root.fileList).Path,
                  !.diffFetched = ~msg.diff.nil,
                  !.preLines = dv.lines, !.preCursor = dv.cursor, !.preOffset = dv.offset,
                  !.preLen = Len(dv.lines)])

RootNavigateFile ==
    \E c \in msgs, g \in GitDiffResults :
        /\ c.type = "navigateFile"
        /\ RootStep(updateNavigateFile(root, dv, c.n, g), msgs \ {c},
                    [NoHist EXCEPT !.op = "navigateFile"])

RootCommentSubmit ==
    \E c \in msgs :
        /\ c.type = "CommentSubmit"
        /\ RootStep(updateCommentSubmit(root, dv, c), msgs \ {c},
                    [NoHist EXCEPT !.op = "CommentSubmit"])

RootCommentCancel ==
    /\ CommentCancelMsg \in msgs
    /\ RootStep(updateCommentCancel(root, dv), msgs \ {CommentCancelMsg},
                [NoHist EXCEPT !.op = "CommentCancel"])

\* NewRootModelUncommitted loads the diff of the first file.
RootCreated ==
    /\ \E files \in GitFiles, g \in GitDiffResults :
          /\ root = NewRootModelUncommitted(files)
          /\ dv = IF Len(files) > 0 /\ ~g.err
                  THEN SetDiff(NewDiffViewer(RootHeight - 2), loadFileDiff(files[1].Path, g))
                  ELSE NewDiffViewer(RootHeight - 2)
    /\ cmd = 0
    /\ crashed = FALSE
    /\ hist = NoHist
    /\ raw = NoRaw
    /\ parsed = NotParsed

\* Init schedules the first refresh tick.
InitRoot ==
    /\ RootCreated
    /\ msgs = {tickRefreshMsg}
    /\ unit = NoUnit

RefreshKey == RootKey(RefreshKeys)
ReviewKey == RootKey(ReviewKeys)

NextRefresh ==
    \/ RefreshKey
    \/ RootTick
    \/ RootRefreshResult
    \/ RootNavigateFile

SpecRefresh == InitRoot /\ [][NextRefresh]_vars

NextReview ==
    \/ ReviewKey
    \/ RootNavigateFile
    \/ RootCommentSubmit
    \/ RootCommentCancel

SpecReview == InitRoot /\ [][NextReview]_vars

(***************************************************************************)
(* The application with comments and the live refresh: the keys that give  *)
(* the focus to the viewer, move down in it, write a comment and delete    *)
(* one, and the refresh.                                                   *)
(***************************************************************************)
MarkerKeys == {"l", "j", "c", "x", "enter", "D"}

MarkerKey == RootKey(MarkerKeys)

NextMarkers ==
    \/ MarkerKey
    \/ RootTick
    \/ RootRefreshResult
    \/ RootCommentSubmit

SpecMarkers == InitRoot /\ [][NextMarkers]_vars

(***************************************************************************)
(* The file list on its own: keys, SetFiles, SelectNext and SelectPrev in  *)
(* any order; `pre` is the list before the last operation.                 *)
(***************************************************************************)
\* The lists of changed files that git reports, in path order.
FileLists ==
    {SelectSeq(<<ChangedFile("a.go"), ChangedFile("b.go"), ChangedFile("c.go")>>,
               LAMBDA f : f.Path \in paths) : paths \in SUBSET {"a.go", "b.go", "c.go"}}

FileListKeys == {"j", "k", "G", "g"}

FileListStep(op, fl) ==
    /\ unit.kind = "fileList"
    /\ unit' = [unit EXCEPT !.op = op, !.pre = unit.fl, !.fl = fl]
    /\ UNCHANGED <<dv, cmd, crashed, hist, root, msgs, raw, parsed>>

DoFileListKey == \E key \in FileListKeys : FileListStep("key", FileListUpdate(unit.fl, key))
DoSetFiles == \E files \in FileLists : FileListStep("SetFiles", SetFiles(unit.fl, files))
DoSelectNext == FileListStep("SelectNext", SelectNext(unit.fl).fl)
DoSelectPrev == FileListStep("SelectPrev", SelectPrev(unit.fl).fl)

InitFiles ==
    /\ dv = NewDiffViewer(MaxHeight)
    /\ cmd = 0
    /\ crashed = FALSE
    /\ hist = NoHist
    /\ root = NoRoot
    /\ msgs = {}
    /\ raw = NoRaw
    /\ parsed = NotParsed
    /\ \E files \in FileLists :
          unit = [kind |-> "fileList", op |-> "new", pre |-> NewFileList(files),
                  fl |-> NewFileList(files)]

NextFiles ==
    \/ DoFileListKey
    \/ DoSetFiles
    \/ DoSelectNext
    \/ DoSelectPrev

SpecFiles == InitFiles /\ [][NextFiles]_vars

(***************************************************************************)
(* The comment store on its own: Add and Delete in any order.  `latest` is *)
(* the record of what was asked: for each key, the body last added and not *)
(* deleted since, NoBody where there is none; `swapped` is whether the     *)
(* last Delete moved the last comment of the slice.                        *)
(***************************************************************************)
StorePaths == {"a.go", "b.go"}
StoreLines == 1..MaxStoreLine
StoreBodies == {<<"x">>, <<"y">>}
StoreKeys == {StoreKey(f, l) : f \in StorePaths, l \in StoreLines}
NoBody == <<"none">>

DoStoreAdd ==
    \E f \in StorePaths, l \in StoreLines, b \in StoreBodies :
        /\ unit.kind = "store"
        /\ unit' = [unit EXCEPT !.op = "Add", !.key = StoreKey(f, l), !.swapped = FALSE,
                                !.store = Store_Add(unit.store, Comment(f, l, b)),
                                !.latest = [unit.latest EXCEPT ![StoreKey(f, l)] = b]]
        /\ UNCHANGED <<dv, cmd, crashed, hist, root, msgs, raw, parsed>>

DoStoreDelete ==
    \E f \in StorePaths, l \in StoreLines :
        /\ unit.kind = "store"
        /\ unit' = [unit EXCEPT !.op = "Delete", !.key = StoreKey(f, l),
                                !.swapped = /\ StoreKey(f, l) \in DOMAIN unit.store.byKey
                                            /\ unit.store.byKey[StoreKey(f, l)]
                                                  # Len(unit.store.comments) - 1,
                                !.store = Store_Delete(unit.store, f, l),
                                !.latest = [unit.latest EXCEPT ![StoreKey(f, l)] = NoBody]]
        /\ UNCHANGED <<dv, cmd, crashed, hist, root, msgs, raw, parsed>>

InitStore ==
    /\ dv = NewDiffViewer(MaxHeight)
    /\ cmd = 0
    /\ crashed = FALSE
    /\ hist = NoHist
    /\ root = NoRoot
    /\ msgs = {}
    /\ raw = NoRaw
    /\ parsed = NotParsed
    /\ unit = [kind |-> "store", op |-> "new", key |-> StoreKey("", 0), swapped |-> FALSE,
               store |-> NewStore,
               latest |-> [k \in StoreKeys |-> NoBody]]

NextStore == DoStoreAdd \/ DoStoreDelete

SpecStore == InitStore /\ [][NextStore]_vars

(***************************************************************************)
(* The application with the ZZ sequence: keys in every mode (the file      *)
(* list, the viewer, the help overlay, the search input, the comment input *)
(* and the output selector) and the messages of the commands they return.  *)
(* The history remembers the last key that reached handleKeyMsg.           *)
(***************************************************************************)
FinishKeys == {"Z", "j", "c", "x", "enter", "?", "/", "q"}
\* A key is remembered as "Z" or as another key.
FinishNamed(key) == IF key = "Z" THEN "Z" ELSE "other"

\* Normal mode: a key reaches handleKeyMsg.
Normal(m) == m.focus \notin {focusCommentInput, focusOutputSelect} /\ ~m.searching

FinishKey ==
    \E key \in FinishKeys :
    \E g \in IF LoadsDiff(root, key) THEN GitDiffResults ELSE {[err |-> TRUE, kinds |-> <<>>]} :
        LET r == updateKeyMsg(root, dv, key, g) IN
        /\ r.msg.type = "CommentSubmit"
              => Cardinality(Add(root.comments, Comment(r.msg.path, r.msg.n, TypedBody)))
                    <= MaxRootComments
        /\ RootStep(r, msgs,
              [NoHist EXCEPT !.op = "key", !.key = FinishNamed(key),
                  !.prevKey = hist.lastNormal,
                  !.preFocus = IF Normal(root) THEN "normal" ELSE root.focus,
                  !.lastNormal = IF Normal(root) THEN FinishNamed(key) ELSE hist.lastNormal])

\* A message of a command is processed.
FinishHist(op) == [NoHist EXCEPT !.op = op, !.lastNormal = hist.lastNormal]

FinishCommentSubmit ==
    \E c \in msgs :
        /\ c.type = "CommentSubmit"
        /\ RootStep(updateCommentSubmit(root, dv, c), msgs \ {c}, FinishHist("CommentSubmit"))

FinishCommentCancel ==
    /\ CommentCancelMsg \in msgs
    /\ RootStep(updateCommentCancel(root, dv), msgs \ {CommentCancelMsg},
                FinishHist("CommentCancel"))

\* output.Deliver fails or succeeds.
FinishOutputSelect ==
    \E err \in BOOLEAN :
        /\ OutputSelectMsg \in msgs
        /\ RootStep(updateOutputSelect(root, dv, err), msgs \ {OutputSelectMsg},
                    FinishHist("OutputSelect"))

FinishOutputCancel ==
    /\ OutputCancelMsg \in msgs
    /\ RootStep(updateOutputCancel(root, dv), msgs \ {OutputCancelMsg},
                FinishHist("OutputCancel"))

NextFinish ==
    \/ FinishKey
    \/ FinishCommentSubmit
    \/ FinishCommentCancel
    \/ FinishOutputSelect
    \/ FinishOutputCancel

SpecFinish == InitRoot /\ [][NextFinish]_vars

(***************************************************************************)
(* The polling loop: the application with the messages in flight counted.  *)
(* `unit` holds the bag of the messages of the commands that have been     *)
(* returned and not yet processed; `msgs` is the set of its elements.      *)
(***************************************************************************)
PollKeys == {"j", "k", "l", "h"}
\* The most messages in flight.
MaxInFlight == 3

\* One Update of the root model that processes the message c (NoMsg for a key).
PollStep(r, c, op) ==
    LET rest == unit.bag (-) SetToBag({c})
        bag == IF r.panic \/ r.msg = NoMsg THEN rest ELSE rest (+) SetToBag({r.msg})
    IN  /\ ~crashed
        /\ BagCardinality(bag) <= MaxInFlight
        /\ dv' = IF r.panic THEN dv ELSE r.dv
        /\ root' = IF r.panic THEN root ELSE r.m
        /\ cmd' = r.cmd
        /\ crashed' = r.panic
        /\ msgs' = BagToSet(bag)
        /\ unit' = [unit EXCEPT !.bag = bag]
        /\ hist' = [NoHist EXCEPT !.op = op]
        /\ UNCHANGED <<raw, parsed>>

PollKey ==
    \E key \in PollKeys :
    \E g \in IF LoadsDiff(root, key) THEN GitDiffResults ELSE {[err |-> TRUE, kinds |-> <<>>]} :
        PollStep(updateKeyMsg(root, dv, key, g), NoMsg, "key")

\* The tick of tea.Tick arrives.
PollTick ==
    /\ BagIn(tickRefreshMsg, unit.bag)
    /\ PollStep(updateTick(root, dv), tickRefreshMsg, "tick")

\* The command of refreshCmd runs and its result is processed.
PollRefreshResult ==
    \E c \in BagToSet(unit.bag), gf \in GitFilesResults, g \in GitDiffResults :
        /\ c.type = "refresh"
        /\ PollStep(updateRefreshResult(root, dv, refreshResultMsg(c.path, gf, g)), c,
                    IF gf.err THEN "refreshError" ELSE "refreshResult")

InitPoll ==
    /\ RootCreated
    /\ msgs = {tickRefreshMsg}
    /\ unit = [kind |-> "poll", bag |-> SetToBag({tickRefreshMsg})]

NextPoll ==
    \/ PollKey
    \/ PollTick
    \/ PollRefreshResult

SpecPoll == InitPoll /\ [][NextPoll]_vars

\* The tick fires when its interval has passed, and the command of a fetch
\* returns.
SpecPollFair == SpecPoll /\ WF_vars(PollTick) /\ WF_vars(PollRefreshResult)

(***************************************************************************)
(* The application with comments on the rows of one file: the file a.go    *)
(* with a diff of one hunk of lines of any type, which git reports every   *)
(* time it is asked, the keys that move in the viewer and write a comment, *)
(* and the messages of the comment input.  `unit` remembers the diff and   *)
(* the rows a comment was submitted on.                                    *)
(***************************************************************************)
CommentKeys == {"l", "j", "k", "c", "x", "enter"}
\* The most lines of the hunk.
MaxCommentRows == 3

\* The row kinds of the diffs: a header and one to MaxCommentRows lines.
CommentShapes ==
    {s \in ShapesUpTo(MaxCommentRows + 1) :
        Len(s) >= 2 /\ \A i \in 2..Len(s) : s[i] # HeaderKind}

\* One Update of the root model; `rows` are the rows commented so far.
CommentStep(r, rest, op, rows) ==
    /\ ~crashed
    /\ r.msg \notin rest
    /\ dv' = IF r.panic THEN dv ELSE r.dv
    /\ root' = IF r.panic THEN root ELSE r.m
    /\ cmd' = r.cmd
    /\ crashed' = r.panic
    /\ msgs' = IF r.panic \/ r.msg = NoMsg THEN rest ELSE rest \cup {r.msg}
    /\ hist' = [NoHist EXCEPT !.op = op, !.preCursor = dv.cursor]
    /\ unit' = [unit EXCEPT !.commented = rows]
    /\ UNCHANGED <<raw, parsed>>

CommentKey ==
    \E key \in CommentKeys :
        LET r == updateKeyMsg(root, dv, key, [err |-> FALSE, kinds |-> unit.kinds]) IN
        /\ r.msg.type = "CommentSubmit"
              => Cardinality(Add(root.comments, Comment(r.msg.path, r.msg.n, TypedBody)))
                    <= MaxCommentRows
        /\ CommentStep(r, msgs, "key", unit.commented)

\* The comment written on the row of the cursor is submitted.
CommentSubmitted ==
    \E c \in msgs :
        /\ c.type = "CommentSubmit"
        /\ CommentStep(updateCommentSubmit(root, dv, c), msgs \ {c}, "CommentSubmit",
                       unit.commented \cup {dv.cursor})

CommentCancelled ==
    /\ CommentCancelMsg \in msgs
    /\ CommentStep(updateCommentCancel(root, dv), msgs \ {CommentCancelMsg},
                   "CommentCancel", unit.commented)

InitComment ==
    /\ \E s \in CommentShapes :
          /\ dv = SetDiff(NewDiffViewer(RootHeight - 2), MkDiff("a.go", s))
          /\ unit = [kind |-> "rows", kinds |-> s, commented |-> {}]
    /\ root = NewRootModelUncommitted(<<ChangedFile("a.go")>>)
    /\ cmd = 0
    /\ crashed = FALSE
    /\ hist = NoHist
    /\ msgs = {}
    /\ raw = NoRaw
    /\ parsed = NotParsed

NextComment ==
    \/ CommentKey
    \/ CommentSubmitted
    \/ CommentCancelled

SpecComment == InitComment /\ [][NextComment]_vars

(***************************************************************************)
(* The parser applied to the text of one file's diff as git writes it: a   *)
(* preamble, one hunk header and the hunk's lines.  The text is also given *)
(* without its `diff --git` line, without any preamble, and with a hunk    *)
(* header that is not of the form the parser expects.                      *)
(***************************************************************************)
PreambleGit == "git"
PreambleFiles == "files"
PreambleNone == "none"
Preambles == {PreambleGit, PreambleFiles, PreambleNone}

HeaderOk == "ok"
HeaderNoRanges == "noRanges"
HeaderNoClose == "noClose"
HeaderForms == {HeaderOk, HeaderNoRanges, HeaderNoClose}

\* The line numbers at which the hunk starts.
StartLines == {1, 12}

\* The texts of the lines of a file: one character, nothing, and the texts
\* that begin like the file lines of a preamble.
LineTexts == {<<"a">>, <<>>, <<"-", "-", " ", "a">>, <<"+", "+", " ", "a">>}

\* The path of the file.
ParsePath == <<"f">>

RECURSIVE BodiesUpTo(_)
\* The lines of every hunk of at most n lines, as [Type, Content] pairs.
BodiesUpTo(n) ==
    IF n = 0 THEN {<<>>}
    ELSE LET shorter == BodiesUpTo(n - 1) IN
         shorter \cup {Append(b, [Type |-> t, Content |-> c]) :
                          b \in {s \in shorter : Len(s) = n - 1},
                          t \in LineTypes, c \in LineTexts}

RECURSIVE Itoa(_)
\* A number in decimal.
Itoa(n) == IF n < 10 THEN <<Digits[n + 1]>> ELSE Itoa(n \div 10) \o <<Digits[(n % 10) + 1]>>

\* One range of a hunk header: the count is left out when it is 1, and the
\* start of an empty range is the line before it.
RangeText(start, count) ==
    IF count = 1 THEN Itoa(start)
    ELSE Itoa(IF count = 0 THEN start - 1 ELSE start) \o <<",">> \o Itoa(count)

\* The hunk header of a hunk with the given lines that starts at `start`.
HeaderText(form, start, body) ==
    LET types == [i \in DOMAIN body |-> body[i].Type]
        ranges == <<"@", "@", " ", "-">> \o RangeText(start, CountOld(types))
                     \o <<" ", "+">> \o RangeText(start, CountNew(types))
    IN CASE form = HeaderOk -> ranges \o <<" ", "@", "@">>
         [] form = HeaderNoRanges -> <<"@", "@", " ", "@", "@">>
         [] form = HeaderNoClose -> ranges

\* The marker that starts a line of a hunk.
Marker(type) ==
    CASE type = LineAdded -> "+" [] type = LineRemoved -> "-" [] type = LineContext -> " "

\* The lines before the hunk header.
PreambleText(pre) ==
    LET files == <<<<"-", "-", "-", " ", "a", "/">> \o ParsePath, <<"+", "+", "+", " ", "b", "/">> \o ParsePath>>
    IN CASE pre = PreambleGit ->
              <<<<"d", "i", "f", "f", " ", "-", "-", "g", "i", "t", " ", "a", "/">> \o ParsePath \o <<" ", "b", "/">> \o ParsePath, <<"i", "n", "d", "e", "x", " ", "1", ".", ".", "2">>>> \o files
         [] pre = PreambleFiles -> files
         [] pre = PreambleNone -> <<>>

RECURSIVE Join(_)
\* The lines with "\n" after each but the last.
Join(ls) ==
    IF ls = <<>> THEN <<>>
    ELSE IF Len(ls) = 1 THEN ls[1]
    ELSE ls[1] \o <<"\n">> \o Join(Tail(ls))

\* The text of the diff that d describes; with d.eol it ends in "\n".
DiffText(d) ==
    Join(PreambleText(d.pre)
         \o <<HeaderText(d.header, d.start, d.body)>>
         \o [i \in DOMAIN d.body |-> <<Marker(d.body[i].Type)>> \o d.body[i].Content]
         \o (IF d.eol THEN <<<<>>>> ELSE <<>>))

\* The diffs given to the parser: a hunk has at least one line.
ParseInputs ==
    [pre : Preambles, header : HeaderForms, start : StartLines,
     body : BodiesUpTo(MaxParseLines) \ {<<>>}, eol : BOOLEAN]

\* A call of ParseDiff with the text.
DoParseDiff ==
    /\ raw.given
    /\ ~parsed.done
    /\ LET r == ParseDiff(raw.text)
       IN parsed' = [done |-> TRUE, diffs |-> r.diffs, err |-> r.err]
    /\ UNCHANGED <<dv, cmd, crashed, hist, root, msgs, raw, unit>>

InitParse ==
    /\ dv = NewDiffViewer(MaxHeight)
    /\ cmd = 0
    /\ crashed = FALSE
    /\ hist = NoHist
    /\ root = NoRoot
    /\ msgs = {}
    /\ \E d \in ParseInputs : raw = [given |-> TRUE, src |-> d, text |-> DiffText(d)]
    /\ parsed = NotParsed
    /\ unit = NoUnit

NextParse == DoParseDiff

SpecParse == InitParse /\ [][NextParse]_vars

(***************************************************************************)
(* The parser applied to a hunk with bare empty lines: the text of one     *)
(* file's diff with a hunk header that declares any counts, and lines that *)
(* are context, added and removed lines, empty lines, and a removed line   *)
(* whose text begins with "-- ".                                           *)
(***************************************************************************)
\* The most lines after the hunk header, and the largest count declared.
MaxBlankLines == 3
MaxDeclared == 2

BlankLineTexts ==
    {<<" ", "a">>, <<"+", "a">>, <<"-", "a">>, <<>>, <<"-", "-", "-", " ", "a">>}

RECURSIVE TextsUpTo(_)
\* The sequences of at most n lines.
TextsUpTo(n) ==
    IF n = 0 THEN {<<>>}
    ELSE LET shorter == TextsUpTo(n - 1) IN
         shorter \cup {Append(b, l) : b \in {s \in shorter : Len(s) = n - 1},
                                     l \in BlankLineTexts}

\* The lines of the text up to the first k lines after the hunk header.
BlankLines(d, k) ==
    PreambleText(PreambleGit)
       \o << <<"@", "@", " ", "-">> \o RangeText(1, d.oldCount) \o <<" ", "+">>
                \o RangeText(1, d.newCount) \o <<" ", "@", "@">> >>
       \o SubSeq(d.body, 1, k)

BlankInputs ==
    [oldCount : 0..MaxDeclared, newCount : 0..MaxDeclared,
     body : TextsUpTo(MaxBlankLines) \ {<<>>}]

InitBlank ==
    /\ dv = NewDiffViewer(MaxHeight)
    /\ cmd = 0
    /\ crashed = FALSE
    /\ hist = NoHist
    /\ root = NoRoot
    /\ msgs = {}
    /\ \E d \in BlankInputs :
          raw = [given |-> TRUE, src |-> d, text |-> Join(BlankLines(d, Len(d.body)))]
    /\ parsed = NotParsed
    /\ unit = NoUnit

NextBlank == DoParseDiff

SpecBlank == InitBlank /\ [][NextBlank]_vars

(***************************************************************************)
(* The parsed diff in the viewer: the text is parsed, Runner.FileDiff      *)
(* hands the first file diff to the viewer, and the cursor moves down its  *)
(* rows.                                                                   *)
(***************************************************************************)
\* Runner.FileDiff after ParseDiff: the first file diff under the path asked
\* for, or a file diff without hunks.
RunnerFileDiff(path, diffs) ==
    IF Len(diffs) = 0 THEN [nil |-> FALSE, Path |-> path, Status |-> "", Hunks |-> <<>>]
    ELSE [diffs[1] EXCEPT !.Path = path]

ShowParsed ==
    /\ parsed.done
    /\ hist.op = "new"
    /\ Step(FALSE, "SetDiff", "", Ret(SetDiff(dv, RunnerFileDiff(ParsePath, parsed.diffs)), 0))

MoveInParsed ==
    /\ hist.op # "new"
    /\ dv.cursor < Len(dv.lines) - 1
    /\ Step(FALSE, "key", "j", Update(dv, "j"))

NextShow == DoParseDiff \/ ShowParsed \/ MoveInParsed

SpecShow == InitParse /\ [][NextShow]_vars

(***************************************************************************)
(* The pairer applied to every sequence of at most MaxPairLines lines of   *)
(* any types.                                                              *)
(***************************************************************************)
RECURSIVE TypesUpTo(_)
\* The line types of every sequence of at most n lines.
TypesUpTo(n) ==
    IF n = 0 THEN {<<>>}
    ELSE LET shorter == TypesUpTo(n - 1) IN
         shorter \cup {Append(t, k) : t \in {u \in shorter : Len(u) = n - 1}, k \in LineTypes}

\* The line sequences given to the pairer.
PairInputs == {[i \in DOMAIN t |-> Line(ContentAt(i), t[i])] : t \in TypesUpTo(MaxPairLines)}

\* A call of BuildSideBySidePairs with the lines.
DoBuildPairs ==
    /\ unit.kind = "pairer"
    /\ ~unit.done
    /\ unit' = [unit EXCEPT !.done = TRUE, !.pairs = BuildSideBySidePairs(unit.lines)]
    /\ UNCHANGED <<dv, cmd, crashed, hist, root, msgs, raw, parsed>>

InitPair ==
    /\ dv = NewDiffViewer(MaxHeight)
    /\ cmd = 0
    /\ crashed = FALSE
    /\ hist = NoHist
    /\ root = NoRoot
    /\ msgs = {}
    /\ raw = NoRaw
    /\ parsed = NotParsed
    /\ \E ls \in PairInputs : unit = [kind |-> "pairer", lines |-> ls, done |-> FALSE, pairs |-> <<>>]

NextPair == DoBuildPairs

SpecPair == InitPair /\ [][NextPair]_vars

(***************************************************************************)
(* Properties of the viewer.                                               *)
(***************************************************************************)
RowCount == Len(dv.lines)
Min(S) == CHOOSE x \in S : \A y \in S : x <= y
Max(S) == CHOOSE x \in S : \A y \in S : x >= y

\* The last operation was the key `key`, and it returned.
AfterKey(key) == hist.op = "key" /\ hist.key = key /\ ~crashed

\* C1: in every reachable viewer state the cursor is a valid row index: within
\* 0..len(rows)-1 when there are rows, and 0 when there are none.
C1_CursorValid ==
    IF RowCount = 0 THEN dv.cursor = 0 ELSE dv.cursor >= 0 /\ dv.cursor <= RowCount - 1

\* C2, as claimed: after RefreshDiff with a diff of fewer rows than before,
\* cursor < newRowCount and scrollOffset < newRowCount.
C2_RefreshShrinkAsClaimed ==
    (hist.op = "RefreshDiff" /\ RowCount < hist.preLen)
        => (dv.cursor < RowCount /\ dv.offset < RowCount)

\* C2, amended: after RefreshDiff with a diff of fewer rows than before but at
\* least one row, in a viewport of height at least 1, cursor < newRowCount and
\* scrollOffset < newRowCount; with a diff of no rows both are 0.
C2_RefreshShrinkInBounds ==
    (hist.op = "RefreshDiff" /\ RowCount < hist.preLen)
        => IF RowCount = 0 THEN dv.cursor = 0 /\ dv.offset = 0
           ELSE dv.height >= 1 => (dv.cursor < RowCount /\ dv.offset < RowCount)

\* A RefreshDiff to a shorter, non-empty diff that had to clamp the cursor.
C2_Witness ==
    /\ hist.op = "RefreshDiff" /\ RowCount >= 1 /\ RowCount < hist.preLen
    /\ dv.height >= 1
    /\ hist.preCursor >= RowCount
    /\ dv.cursor = RowCount - 1

\* The user has moved the selection since the fetch was issued: the path
\* selected when the result arrives is not the path the fetch captured.
MovedSinceFetch == hist.op = "refreshResult" /\ hist.selPath # hist.reqPath

\* The viewer shows the rows, cursor and offset it showed before the operation.
ViewUntouched ==
    dv.lines = hist.preLines /\ dv.cursor = hist.preCursor /\ dv.offset = hist.preOffset

\* C3 as claimed: if the user has moved the selection to a different file
\* between the moment a refresh fetch was issued and the moment its result is
\* processed, the viewer's rows, cursor and scroll offset are the same before
\* and after the result is processed.
C3_StaleResultDiscarded == MovedSinceFetch => ViewUntouched

\* C3: if the user has moved the selection to a different file between the
\* moment a refresh fetch was issued and the moment its result is processed,
\* and the file list after the result still lists the file the user moved to,
\* the viewer's rows, cursor and scroll offset are the same before and after
\* the result is processed.
C3_StaleResultDiscardedIfListed ==
    (MovedSinceFetch /\ \E i \in DOMAIN root.files : root.files[i].Path = hist.selPath)
        => ViewUntouched

\* A result that carried a diff for the file the fetch was issued for arrived
\* after the user had moved to another file, which the new list still has.
C3_Witness ==
    /\ MovedSinceFetch /\ hist.diffFetched /\ ~crashed
    /\ \E i \in DOMAIN root.files : root.files[i].Path = hist.selPath
    /\ \E i \in DOMAIN root.files : root.files[i].Path = hist.reqPath
    /\ Len(dv.lines) >= 2

\* C4: after SetDiff(fileDiff), rows = flatten(fileDiff), cursor = 0,
\* scrollOffset = 0, visual mode is off and the search match list is empty.
C4_SetDiffResets ==
    hist.op = "SetDiff"
        => /\ dv.lines = flattenLines(dv.diff)
           /\ dv.cursor = 0
           /\ dv.offset = 0
           /\ ~dv.visualMode
           /\ dv.searchMatches = <<>>

\* C5: immediately after a key event that changed the cursor, in a viewport of
\* height at least 1, scrollOffset <= cursor < scrollOffset + viewportHeight.
C5_CursorVisibleAfterKey ==
    (hist.op = "key" /\ ~crashed /\ dv.cursor # hist.preCursor /\ dv.height >= 1)
        => (dv.offset <= dv.cursor /\ dv.cursor < dv.offset + dv.height)

\* Row i is an Added or Removed code row.
ChangeRow(lines, i) ==
    /\ i >= 0 /\ i < Len(lines)
    /\ ~lines[i + 1].isHunkHeader
    /\ lines[i + 1].line.Type \in {LineAdded, LineRemoved}

\* The first rows of the change blocks (maximal runs of change rows).
BlockStarts(lines) ==
    {j \in 0..(Len(lines) - 1) : ChangeRow(lines, j) /\ ~ChangeRow(lines, j - 1)}

\* The first rows of the change blocks that begin after row p.
BlocksAfter(lines, p) == {j \in BlockStarts(lines) : j > p}

\* The first row of the block row p lies in, or p itself on a non-change row.
OwnStart(lines, p) ==
    IF ChangeRow(lines, p) THEN Max({j \in BlockStarts(lines) : j <= p}) ELSE p

\* The first rows of the change blocks that end before the block (or
\* non-change row) row p lies in.
BlocksBefore(lines, p) == {j \in BlockStarts(lines) : j < OwnStart(lines, p)}

\* C6: "]" then "c" leaves the cursor on the smallest marked row after the
\* position p the cursor had before "]", and "[" then "c" on the largest marked
\* row before p, whenever there is one, wherever the bracket key moved the cursor.
C6_BracketThenC ==
    (AfterKey("c") /\ hist.prevKey \in BracketKeys)
        => LET p == hist.prevCursor
               after == {i \in dv.commentLines : i > p}
               before == {i \in dv.commentLines : i < p}
           IN  /\ (hist.prevKey = "]" /\ after # {}) => dv.cursor = Min(after)
               /\ (hist.prevKey = "[" /\ before # {}) => dv.cursor = Max(before)

\* "]" jumped past a marked row to a change block, and "c" came back to the
\* first marked row after the original position although a later one exists.
C6_Witness ==
    /\ AfterKey("c") /\ hist.prevKey = "]"
    /\ hist.preCursor > hist.prevCursor
    /\ dv.cursor > hist.prevCursor /\ dv.cursor < hist.preCursor
    /\ dv.cursor \in dv.commentLines
    /\ \E i \in dv.commentLines : i > dv.cursor

\* C7: with the keys delivered to the root model and the focus on the diff
\* viewer, "]" then "c" leaves the cursor on the first marked row after the
\* position "]" started from, and "[" then "c" on the last marked row before
\* it, and the focus is still on the diff viewer.
C7_RootBracketThenC ==
    /\ (AfterKey("c") /\ hist.prevKey = "]" /\ hist.preFocus = focusDiffViewer
            /\ {i \in dv.commentLines : i > hist.prevCursor} # {})
        => /\ dv.cursor = Min({i \in dv.commentLines : i > hist.prevCursor})
           /\ root.focus = focusDiffViewer
    /\ (AfterKey("c") /\ hist.prevKey = "[" /\ hist.preFocus = focusDiffViewer
            /\ {i \in dv.commentLines : i < hist.prevCursor} # {})
        => /\ dv.cursor = Max({i \in dv.commentLines : i < hist.prevCursor})
           /\ root.focus = focusDiffViewer

\* C8: a successful "]" moves the cursor to the first row of the next change
\* block: the smallest row after the cursor that is a change row whose
\* predecessor is not.
C8_NextChangeBlock ==
    (AfterKey("]") /\ cmd = 0)
        => /\ BlocksAfter(dv.lines, hist.preCursor) # {}
           /\ dv.cursor = Min(BlocksAfter(dv.lines, hist.preCursor))

\* "]" from inside a change block landed on the next block, past at least two
\* rows that are not change rows.
C8_Witness ==
    /\ AfterKey("]") /\ cmd = 0
    /\ ChangeRow(dv.lines, hist.preCursor)
    /\ dv.cursor >= hist.preCursor + 3
    /\ ~ChangeRow(dv.lines, dv.cursor - 1) /\ ~ChangeRow(dv.lines, dv.cursor - 2)

\* C9: a successful "[" places the cursor on the first row of the previous
\* change block, the nearest one that ends before the block (or non-change
\* row) the cursor started in, from every starting row.
C9_PrevChangeBlock ==
    (AfterKey("[") /\ cmd = 0)
        => /\ BlocksBefore(dv.lines, hist.preCursor) # {}
           /\ dv.cursor = Max(BlocksBefore(dv.lines, hist.preCursor))

\* C10: "]" with no change block after the cursor, and "[" with none before
\* it, leave cursor and scroll offset unchanged and return one file-boundary
\* event, of direction +1 and -1.
C10_BoundaryEvent ==
    /\ (hist.op = "key" /\ hist.key = "]" /\ BlocksAfter(dv.lines, hist.preCursor) = {})
        => (~crashed /\ dv.cursor = hist.preCursor /\ dv.offset = hist.preOffset /\ cmd = 1)
    /\ (hist.op = "key" /\ hist.key = "[" /\ BlocksBefore(dv.lines, hist.preCursor) = {})
        => (~crashed /\ dv.cursor = hist.preCursor /\ dv.offset = hist.preOffset /\ cmd = -1)

\* The rows that are hunk headers.
HeaderRows(lines) == {i \in 0..(Len(lines) - 1) : lines[i + 1].isHunkHeader}

\* C11: "}" moves the cursor to the smallest hunk-header row after the cursor
\* and "{" to the largest hunk-header row before it; if there is none the
\* cursor is unchanged and the file-boundary event of that direction is
\* emitted.
C11_HunkJump ==
    /\ (hist.op = "key" /\ hist.key = "}")
        => LET after == {i \in HeaderRows(dv.lines) : i > hist.preCursor} IN
           /\ ~crashed
           /\ IF after # {} THEN dv.cursor = Min(after)
              ELSE dv.cursor = hist.preCursor /\ cmd = 1
    /\ (hist.op = "key" /\ hist.key = "{")
        => LET before == {i \in HeaderRows(dv.lines) : i < hist.preCursor} IN
           /\ ~crashed
           /\ IF before # {} THEN dv.cursor = Max(before)
              ELSE dv.cursor = hist.preCursor /\ cmd = -1

\* The values of a sequence of row indices.
Values(m) == {m[k] : k \in DOMAIN m}

\* C12: with a non-empty match list "n" sets the cursor to the smallest match
\* greater than the cursor, or to the first match if none is greater, and "N"
\* to the largest match smaller than the cursor, or to the last match if none
\* is smaller; with an empty match list both leave cursor and offset as they
\* were.
C12_SearchJump ==
    LET m == dv.searchMatches IN
    /\ (hist.op = "key" /\ hist.key \in {"n", "N"})
        => /\ ~crashed
           /\ Len(m) = 0 => (dv.cursor = hist.preCursor /\ dv.offset = hist.preOffset)
    /\ (hist.op = "key" /\ hist.key = "n" /\ Len(m) > 0)
        => LET after == {x \in Values(m) : x > hist.preCursor} IN
           dv.cursor = IF after # {} THEN Min(after) ELSE m[1]
    /\ (hist.op = "key" /\ hist.key = "N" /\ Len(m) > 0)
        => LET before == {x \in Values(m) : x < hist.preCursor} IN
           dv.cursor = IF before # {} THEN Max(before) ELSE m[Len(m)]

\* "n" on the last of several matches wrapped to the first.
C12_Witness ==
    /\ hist.op = "key" /\ hist.key = "n" /\ ~crashed
    /\ Len(dv.searchMatches) >= 2
    /\ hist.preCursor = dv.searchMatches[Len(dv.searchMatches)]
    /\ dv.cursor = dv.searchMatches[1]

\* C13: SetSearch(term) sets searchMatches to the strictly increasing list of
\* exactly the code rows whose content contains term, the empty list when
\* term is empty, and leaves cursor and offset unchanged.
C13_SetSearchMatches ==
    hist.op = "SetSearch"
        => LET m == dv.searchMatches
               hits == {i \in 0..(Len(dv.lines) - 1) :
                            /\ ~dv.lines[i + 1].isHunkHeader
                            /\ Contains(dv.lines[i + 1].line.Content, dv.searchTerm)}
           IN  /\ \A k \in 1..(Len(m) - 1) : m[k] < m[k + 1]
               /\ Values(m) = IF dv.searchTerm = <<>> THEN {} ELSE hits
               /\ dv.cursor = hist.preCursor /\ dv.offset = hist.preOffset

\* A search that matched some code rows and not others, with the cursor off
\* the first row.
C13_Witness ==
    /\ hist.op = "SetSearch" /\ dv.searchTerm # <<>>
    /\ Len(dv.searchMatches) >= 1
    /\ \E i \in 0..(Len(dv.lines) - 1) :
          ~dv.lines[i + 1].isHunkHeader /\ i \notin Values(dv.searchMatches)
    /\ dv.cursor > 0

\* The offset nearest to o that shows the cursor c in a window of h >= 1 rows.
NearestShowing(o, c, h) == IF o > c THEN c ELSE IF o < c - h + 1 THEN c - h + 1 ELSE o

\* What RefreshDiff has to leave alone: the cursor, the visual-selection state
\* and the side-by-side flag, and the offset but for the least change that
\* shows the cursor.
RefreshKeepsView ==
    /\ ~crashed
    /\ dv.cursor = hist.preCursor
    /\ <<dv.visualMode, dv.visualStart, dv.sideBySide>> = hist.preSel
    /\ dv.height >= 1 => dv.offset = NearestShowing(hist.preOffset, dv.cursor, dv.height)

C15_RefreshNilStable ==
    (hist.op = "RefreshDiff" /\ dv.diff.nil)
        => /\ ~crashed
           /\ dv.lines = <<>> /\ dv.cursor = 0 /\ dv.offset = 0
           /\ RefreshDiff(dv, NilDiff) = dv

\* A RefreshDiff with nil content of a viewer that showed rows below the first.
C15_Witness ==
    /\ hist.op = "RefreshDiff" /\ dv.diff.nil
    /\ hist.preLen >= 2 /\ hist.preCursor >= 1

(***************************************************************************)
(* Properties of the parser.                                               *)
(***************************************************************************)
\* The hunks of every file diff that the parser returned.
ParsedHunks ==
    IF parsed.done
    THEN {parsed.diffs[i].Hunks[j] : <<i, j>> \in
             {p \in (DOMAIN parsed.diffs) \X (1..MaxParseLines) :
                 p[2] <= Len(parsed.diffs[p[1]].Hunks)}}
    ELSE {}

\* C16: parsing text that has a line starting with "@@" that is not of the
\* form `@@ -<oldStart>[,<oldCount>] +<newStart>[,<newCount>] @@` fails with
\* an error instead of returning a result.
C16_InvalidHeaderFails ==
    (parsed.done /\ raw.src.header # HeaderOk) => parsed.err

\* A text with an invalid hunk header after a `diff --git` line was parsed
\* and a file diff was returned for it.
C16_Silent ==
    /\ parsed.done
    /\ raw.src.header = HeaderNoRanges
    /\ raw.src.pre = PreambleGit
    /\ ~parsed.err
    /\ Len(parsed.diffs) = 1

\* The only hunk of the only file diff that the parser returned.
TheHunk == parsed.diffs[1].Hunks[1]

\* The types and the texts of the parsed lines of a hunk.
Parts(h) == [i \in DOMAIN h.Lines |-> [Type |-> h.Lines[i].Type, Content |-> h.Lines[i].Content]]

\* The types of the lines that the text was written from.
BodyTypes == [i \in DOMAIN raw.src.body |-> raw.src.body[i].Type]

\* The text has a valid hunk header and was parsed.
ParsedValid == parsed.done /\ raw.src.header = HeaderOk

\* C17: text with no `diff --git` line is still parsed into a file diff: its
\* hunk and the lines of the hunk are retained, and the path is the one of
\* the `+++ b/<path>` and `--- a/<path>` lines when the text has them.
C17_BareHunkParsed ==
    (ParsedValid /\ raw.src.pre # PreambleGit) =>
        /\ Len(parsed.diffs) = 1
        /\ Len(parsed.diffs[1].Hunks) = 1
        /\ Len(TheHunk.Lines) = Len(raw.src.body)
        /\ raw.src.pre = PreambleFiles => parsed.diffs[1].Path = ParsePath

\* A hunk of lines with the text "a" and no preamble was parsed, and nothing
\* was returned for it.
C17_Dropped ==
    /\ ParsedValid
    /\ raw.src.pre = PreambleNone
    /\ \A i \in DOMAIN raw.src.body : raw.src.body[i].Content = <<"a">>
    /\ parsed.diffs = <<>>

\* The numbers of one side of the lines of h start at `start` and increase
\* by one; `other` is the type of the lines that are not of this side.
Numbered(h, start, other, no(_)) ==
    LET side == SelectSeq(h.Lines, LAMBDA l : l.Type # other)
    IN \A i \in DOMAIN side : no(side[i]) = start + i - 1

OldNo(l) == l.OldLineNo
NewNo(l) == l.NewLineNo

\* C18: for every valid diff, whatever the text of its lines, the header of
\* each parsed hunk has the ranges that were written, the old and the new
\* numbers of its lines start at OldStart and at NewStart and increase by
\* one per side, the number of context and removed lines is OldCount and the
\* number of context and added lines is NewCount.
C18_RangesReproduced ==
    (ParsedValid /\ raw.src.pre = PreambleGit) =>
        /\ Len(parsed.diffs) = 1
        /\ Len(parsed.diffs[1].Hunks) = 1
        /\ LET h == TheHunk
               types == [i \in DOMAIN h.Lines |-> h.Lines[i].Type]
           IN /\ h.OldCount = CountOld(BodyTypes)
              /\ h.NewCount = CountNew(BodyTypes)
              /\ h.OldStart = (IF h.OldCount = 0 THEN raw.src.start - 1 ELSE raw.src.start)
              /\ h.NewStart = (IF h.NewCount = 0 THEN raw.src.start - 1 ELSE raw.src.start)
              /\ Numbered(h, h.OldStart, LineAdded, OldNo)
              /\ Numbered(h, h.NewStart, LineRemoved, NewNo)
              /\ CountOld(types) = h.OldCount
              /\ CountNew(types) = h.NewCount

\* A valid diff was parsed into a hunk with fewer old lines than its header
\* counts.
C18_OldCountShort ==
    /\ ParsedValid
    /\ raw.src.pre = PreambleGit
    /\ Len(parsed.diffs) = 1
    /\ Len(parsed.diffs[1].Hunks) = 1
    /\ Cardinality({i \in DOMAIN TheHunk.Lines : TheHunk.Lines[i].Type # LineAdded})
          < TheHunk.OldCount

\* C19: for every line of every hunk that the parser returned, an added line
\* has no old number and a new number above 0, a removed line has no new
\* number and an old number above 0, and a context line has both numbers.
C19_LineNumbersSet ==
    \A h \in ParsedHunks : \A i \in DOMAIN h.Lines :
        LET l == h.Lines[i] IN
        CASE l.Type = LineAdded -> l.OldLineNo = 0 /\ l.NewLineNo > 0
          [] l.Type = LineRemoved -> l.NewLineNo = 0 /\ l.OldLineNo > 0
          [] l.Type = LineContext -> l.OldLineNo > 0 /\ l.NewLineNo > 0

\* A hunk was returned with a context line that has no new number.
C19_ContextUnnumbered ==
    \E h \in ParsedHunks : \E i \in DOMAIN h.Lines :
        h.Lines[i].Type = LineContext /\ h.Lines[i].NewLineNo = 0

\* C20: within a hunk, every line of the text that starts with "+" becomes
\* an added line, with "-" a removed line and with a space a context line,
\* and its content is the rest of the line, whatever that is.
C20_MarkerGivesType ==
    (ParsedValid /\ raw.src.pre = PreambleGit) =>
        /\ Len(parsed.diffs) = 1
        /\ Len(parsed.diffs[1].Hunks) = 1
        /\ \A i \in DOMAIN raw.src.body :
              /\ i <= Len(TheHunk.Lines)
              /\ Parts(TheHunk)[i] = raw.src.body[i]

\* The hunk of one added line "+++ a" was parsed, and no added line was
\* returned.
C20_AddedDropped ==
    /\ ParsedValid
    /\ raw.src.pre = PreambleGit
    /\ raw.src.body = <<[Type |-> LineAdded, Content |-> <<"+", "+", " ", "a">>]>>
    /\ Len(parsed.diffs) = 1
    /\ Len(parsed.diffs[1].Hunks) = 1
    /\ \A i \in DOMAIN TheHunk.Lines : TheHunk.Lines[i].Type # LineAdded

\* The parsed lines of a valid diff whose lines have none of the texts that
\* begin like the file lines of a preamble are the lines it was written from.
PlainParsed ==
    (/\ ParsedValid /\ raw.src.pre = PreambleGit
     /\ \A i \in DOMAIN raw.src.body : Len(raw.src.body[i].Content) <= 1) =>
        /\ Len(parsed.diffs) = 1
        /\ parsed.diffs[1].Path = ParsePath
        /\ Len(parsed.diffs[1].Hunks) = 1
        /\ Parts(TheHunk) = raw.src.body
        /\ C18_RangesReproduced
        /\ C19_LineNumbersSet

(***************************************************************************)
(* Properties of the pairer.                                               *)
(***************************************************************************)
\* The pairer was called.
Paired == unit.kind = "pairer" /\ unit.done

\* The number of lines of the given type that the pairer was given.
CountType(type) == Cardinality({i \in DOMAIN unit.lines : unit.lines[i].Type = type})

RECURSIVE SidesPresent(_)
\* The number of sides of the pairs that are present.
SidesPresent(pairs) ==
    IF pairs = <<>> THEN 0
    ELSE (IF Head(pairs).Left # NilPtr THEN 1 ELSE 0)
         + (IF Head(pairs).Right # NilPtr THEN 1 ELSE 0) + SidesPresent(Tail(pairs))

\* C21 as stated: the number of present sides over all pairs is the number
\* of lines given.
C21_SidesAreLines == Paired => SidesPresent(unit.pairs) = Len(unit.lines)

\* C21: the number of present sides over all pairs is the number of lines
\* given plus the number of context lines among them, a context line being
\* both sides of its pair.
C21_SidesAreLinesPlusContext ==
    Paired => SidesPresent(unit.pairs) = Len(unit.lines) + CountType(LineContext)

\* Lines of all three types were paired, the last one a removed line.
C21_Witness ==
    /\ Paired
    /\ \A t \in LineTypes : CountType(t) > 0
    /\ unit.lines[Len(unit.lines)].Type = LineRemoved

RECURSIVE Reading(_)
\* The lines of the pairs read in order, the left side of a pair before its
\* right side.
Reading(pairs) ==
    IF pairs = <<>> THEN <<>>
    ELSE (IF Head(pairs).Left # NilPtr THEN <<Head(pairs).Left>> ELSE <<>>)
         \o (IF Head(pairs).Right # NilPtr THEN <<Head(pairs).Right>> ELSE <<>>)
         \o Reading(Tail(pairs))

\* The lines of q at their first appearance.
FirstAppearances(q) == SelectSeq([i \in DOMAIN q |-> IF \E j \in 1..(i - 1) : q[j] = q[i] THEN NilPtr ELSE q[i]],
                                 LAMBDA x : x # NilPtr)

\* The lines of q are in the order they have in the input.
InInputOrder(q) == \A i, j \in DOMAIN q : i < j => q[i] < q[j]

\* The left sides and the right sides of the pairs that are present.
Lefts(pairs) == SelectSeq([i \in DOMAIN pairs |-> pairs[i].Left], LAMBDA x : x # NilPtr)
Rights(pairs) == SelectSeq([i \in DOMAIN pairs |-> pairs[i].Right], LAMBDA x : x # NilPtr)

\* C22 as stated: reading the pairs in order, the left side of a pair before
\* its right side, the lines make their first appearance in the order they
\* have in the input.
C22_FirstAppearanceOrder == Paired => InInputOrder(FirstAppearances(Reading(unit.pairs)))

\* C22: the pairer preserves the order of each side: the lines on the left
\* sides of the pairs are in the order they have in the input, and so are
\* the lines on the right sides.
C22_OrderPerSide ==
    Paired => InInputOrder(Lefts(unit.pairs)) /\ InInputOrder(Rights(unit.pairs))

\* Two removed lines followed by an added line were paired.
C22_Witness ==
    /\ Paired
    /\ Len(unit.lines) >= 3
    /\ unit.lines[1].Type = LineRemoved
    /\ unit.lines[2].Type = LineRemoved
    /\ unit.lines[3].Type = LineAdded

\* The pairs that line i is a side of.
PairsOf(i) == {k \in DOMAIN unit.pairs : unit.pairs[k].Left = i \/ unit.pairs[k].Right = i}

\* C23: every line given to the pairer is in exactly one pair, a context
\* line as both sides of it, a removed line as a left side only and an added
\* line as a right side only, and no pair has both sides absent.
C23_EveryLineInOnePair ==
    Paired =>
        /\ \A i \in 0..(Len(unit.lines) - 1) :
              /\ Cardinality(PairsOf(i)) = 1
              /\ \A k \in PairsOf(i) :
                    CASE unit.lines[i + 1].Type = LineContext ->
                            unit.pairs[k].Left = i /\ unit.pairs[k].Right = i
                      [] unit.lines[i + 1].Type = LineRemoved ->
                            unit.pairs[k].Left = i /\ unit.pairs[k].Right # i
                      [] unit.lines[i + 1].Type = LineAdded ->
                            unit.pairs[k].Right = i /\ unit.pairs[k].Left # i
        /\ \A k \in DOMAIN unit.pairs :
              unit.pairs[k].Left # NilPtr \/ unit.pairs[k].Right # NilPtr

\* Lines of all three types were paired into a pair with both sides, a pair
\* with no left side and a pair with no right side.
C23_Witness ==
    /\ Paired
    /\ \A t \in LineTypes : CountType(t) > 0
    /\ \E k \in DOMAIN unit.pairs : unit.pairs[k].Left = NilPtr
    /\ \E k \in DOMAIN unit.pairs : unit.pairs[k].Right = NilPtr
    /\ \E k \in DOMAIN unit.pairs :
          /\ unit.pairs[k].Left # NilPtr /\ unit.pairs[k].Right # NilPtr
          /\ unit.pairs[k].Left # unit.pairs[k].Right

\* Lines s .. s+k-1 are all the removed lines of a run and lines s+k ..
\* s+2k-1 all the added lines of the run that follows it (0-based).
EqualRuns(s, k) ==
    /\ k >= 1
    /\ s + 2 * k <= Len(unit.lines)
    /\ \A i \in s..(s + k - 1) : unit.lines[i + 1].Type = LineRemoved
    /\ \A i \in (s + k)..(s + 2 * k - 1) : unit.lines[i + 1].Type = LineAdded
    /\ s > 0 => unit.lines[s].Type # LineRemoved
    /\ s + 2 * k < Len(unit.lines) => unit.lines[s + 2 * k + 1].Type # LineAdded

\* C24: a run of k removed lines followed at once by a run of k added lines
\* gives k pairs, the i-th of them the i-th removed line with the i-th added
\* line.
C24_EqualRunsPaired ==
    Paired =>
        \A s \in 0..Len(unit.lines), k \in 1..Len(unit.lines) :
            EqualRuns(s, k) =>
                \A i \in 0..(k - 1) :
                    \E p \in DOMAIN unit.pairs : unit.pairs[p] = LinePair(s + i, s + k + i)

\* C24 for runs that start with no removed line pending: the lines before
\* the run of removed lines, if any, end with a context line.
C24_EqualRunsAfterContext ==
    Paired =>
        \A s \in 0..Len(unit.lines), k \in 1..Len(unit.lines) :
            (EqualRuns(s, k) /\ (s > 0 => unit.lines[s].Type = LineContext)) =>
                \A i \in 0..(k - 1) :
                    \E p \in DOMAIN unit.pairs : unit.pairs[p] = LinePair(s + i, s + k + i)

(***************************************************************************)
(* Properties of the rows and of the accessors of the viewer.              *)
(***************************************************************************)
RECURSIVE RowsOf(_, _)
\* The number of rows of the first n hunks: one per hunk and one per line.
RowsOf(hunks, n) == IF n = 0 THEN 0 ELSE RowsOf(hunks, n - 1) + 1 + Len(hunks[n].Lines)

\* C25: the rows of the viewer are, for each hunk of its diff in order, one
\* hunk-header row followed by one code row per line of the hunk in order,
\* so there is one row per hunk and one per line; a nil diff has no rows.
C25_FlattenRows ==
    IF dv.diff.nil THEN dv.lines = <<>>
    ELSE LET hunks == dv.diff.Hunks IN
         /\ Len(dv.lines) = RowsOf(hunks, Len(hunks))
         /\ \A j \in DOMAIN hunks :
               LET first == RowsOf(hunks, j - 1) IN
               /\ dv.lines[first + 1].isHunkHeader
               /\ dv.lines[first + 1].hunkHeader = hunks[j].Header
               /\ dv.lines[first + 1].line.nil
               /\ \A k \in DOMAIN hunks[j].Lines :
                     /\ ~dv.lines[first + 1 + k].isHunkHeader
                     /\ dv.lines[first + 1 + k].line = PtrLine(hunks[j].Lines[k])

\* SetDiff was given a diff of two hunks, the first of them with a line.
C25_Witness ==
    /\ hist.op = "SetDiff"
    /\ ~dv.diff.nil
    /\ Len(dv.diff.Hunks) = 2
    /\ Len(dv.diff.Hunks[1].Lines) = 1
    /\ Len(dv.lines) = 3

\* The cursor is on a row of a parsed diff.
OnParsedRow == parsed.done /\ hist.op # "new" /\ dv.cursor >= 0 /\ dv.cursor < Len(dv.lines)

\* CurrentLine gives no line on a hunk-header row, and on a code row
\* CurrentLineNo is the new number of an added or context line and the old
\* number of a removed line.
CurrentLineByType ==
    LET row == dv.lines[dv.cursor + 1] IN
    IF row.isHunkHeader THEN CurrentLine(dv).nil /\ CurrentLineNo(dv) = 0
    ELSE /\ ~CurrentLine(dv).nil
         /\ CurrentLineNo(dv) = (IF row.line.Type = LineRemoved THEN row.line.OldLineNo
                                 ELSE row.line.NewLineNo)

\* C26: CurrentLine gives no line when the cursor is on a hunk-header row;
\* on a code row the comment line number is the new number of an added or
\* context line and the old number of a removed line, and it is not 0 for
\* any code row of a parsed diff.
C26_CurrentLineNo ==
    OnParsedRow =>
        /\ CurrentLineByType
        /\ ~dv.lines[dv.cursor + 1].isHunkHeader => CurrentLineNo(dv) # 0

\* C26 without its last part: the line and the number that CurrentLine and
\* CurrentLineNo give on every row of a parsed diff.
C26_CurrentLineByType == OnParsedRow => CurrentLineByType

\* C27: whenever visual mode is active, VisualRange gives the smaller of
\* the anchor and the cursor as start and the larger as end, so start <= end
\* after any movement of the cursor in either direction since "v".
C27_VisualRangeOrdered ==
    dv.visualMode =>
        /\ VisualRange(dv) = [start |-> Min({dv.visualStart, dv.cursor}),
                              end |-> Max({dv.visualStart, dv.cursor})]
        /\ VisualRange(dv).start <= VisualRange(dv).end

\* In visual mode a key has moved the cursor above the anchor.
C27_Witness ==
    /\ dv.visualMode
    /\ hist.op = "key"
    /\ dv.cursor < dv.visualStart
    /\ dv.cursor # hist.preCursor

(***************************************************************************)
(* Properties of the comment markers, of the file list and of the comment  *)
(* store.                                                                  *)
(***************************************************************************)
\* The code rows of the viewer whose comment line number is the start line
\* of a stored comment for the file whose rows are displayed.
CommentedRows ==
    IF dv.diff.nil THEN {}
    ELSE {i \in 0..(Len(dv.lines) - 1) :
            /\ ~dv.lines[i + 1].isHunkHeader
            /\ \E c \in root.comments :
                  c.FilePath = dv.diff.Path /\ c.StartLine = LineNoOf(dv.lines[i + 1].line)}

\* C28: after every transition of the root model that changes the rows of
\* the viewer or the comment store, the rows that carry a comment marker
\* are exactly the code rows whose comment line number is the start line of
\* a stored comment for the file whose rows are displayed.  No other
\* transition changes the rows, the store or the markers, so this is every
\* state of the application.
C28_MarkersMatchComments == dv.commentLines = CommentedRows

\* The path that was selected before the last operation on the file list,
\* "" when no file was.
SelectedBefore == SelectedFile(unit.pre).Path

\* C29: after SetFiles(files), the cursor is on the path that was selected
\* before if files has it; if it has not, the cursor is an index of files;
\* and if files is empty the cursor is 0.
C29_SetFilesCursor ==
    (unit.kind = "fileList" /\ unit.op = "SetFiles") =>
        LET fl == unit.fl IN
        IF Len(fl.files) = 0 THEN fl.cursor = 0
        ELSE IF SelectedBefore # "" /\ \E i \in DOMAIN fl.files : fl.files[i].Path = SelectedBefore
        THEN SelectedFile(fl).Path = SelectedBefore
        ELSE fl.cursor >= 0 /\ fl.cursor <= Len(fl.files) - 1

\* C29 for a list whose cursor was at least 0 before SetFiles.
C29_SetFilesCursorFromValid ==
    (unit.kind = "fileList" /\ unit.op = "SetFiles" /\ unit.pre.cursor >= 0) =>
        C29_SetFilesCursor

\* C30: the store behaves as a map keyed by file path and start line:
\* after any sequence of Add and Delete, Get gives for every key the comment
\* last added for it if it was not deleted since, and nothing otherwise; a
\* Delete of one key thus changes what Get gives for no other key.
C30_StoreIsMap ==
    unit.kind = "store" =>
        \A k \in StoreKeys :
            LET got == Store_Get(unit.store, k[1], k[2]) IN
            IF unit.latest[k] = NoBody THEN got.nil
            ELSE /\ ~got.nil
                 /\ got.c = Comment(k[1], k[2], unit.latest[k])

\* A comment that was not the last of three in the store was deleted, and
\* the two that are left have different bodies.
C30_Witness ==
    /\ unit.kind = "store"
    /\ unit.op = "Delete"
    /\ unit.swapped
    /\ Len(unit.store.comments) = 2
    /\ unit.store.comments[1].Body # unit.store.comments[2].Body

(***************************************************************************)
(* Properties of the ZZ sequence.                                          *)
(***************************************************************************)
\* The step gives the review its end: it is finished, or the output
\* selector is shown.
Finishes == 
    \/ root'.finished /\ ~root.finished
    \/ root'.focus = focusOutputSelect /\ root.focus # focusOutputSelect

\* C31: the review is finished only through the sequence ZZ.  A "Z" handled
\* in normal mode when the key handled in normal mode before it was not "Z"
\* returns no command and finishes nothing; a step finishes only when it is
\* a "Z" handled in normal mode right after another "Z" handled in normal
\* mode, or the delivery to the target chosen in the output selector that
\* such a step has shown; and any other key handled in normal mode leaves
\* no "Z" pending.
C31_FinishOnlyByZZ ==
    [][/\ (hist'.op = "key" /\ hist'.key = "Z" /\ Normal(root) /\ hist.lastNormal # "Z")
            => msgs' = msgs /\ ~Finishes
       /\ Finishes
            => \/ /\ hist'.op = "key" /\ hist'.key = "Z" /\ Normal(root)
                  /\ hist.lastNormal = "Z"
               \/ hist'.op = "OutputSelect" /\ root.focus = focusOutputSelect
       /\ (hist'.op = "key" /\ hist'.key # "Z" /\ Normal(root) /\ ~crashed')
            => ~root'.pendingZ]_vars

\* The second "Z" has finished a review without comments.
C31_Witness ==
    /\ root.finished /\ hist.op = "key" /\ hist.key = "Z" /\ hist.prevKey = "Z"
    /\ hist.preFocus = "normal"

\* A "Z" after a "Z" and another key: it is pending again and nothing is finished.
C31_WitnessCleared ==
    /\ hist.op = "key" /\ hist.key = "Z" /\ hist.prevKey = "other"
    /\ root.pendingZ /\ ~root.finished

(***************************************************************************)
(* Properties of the polling loop.                                         *)
(***************************************************************************)
\* The number of messages of a type in flight.
InFlight(type) ==
    LET S == {m \in BagToSet(unit.bag) : m.type = type} IN
    IF S = {} THEN 0 ELSE BagCardinality([m \in S |-> unit.bag[m]])

\* C32: at most one refresh fetch is in flight at any time; refreshInProgress
\* is set exactly while a fetch is in flight (from the tick that issues it
\* to the processing of its result); and a tick processed while
\* refreshInProgress is set starts no fetch: it changes nothing and schedules
\* the next tick (in the running loop no tick is outstanding while the flag
\* is set, so the case is also put to updateTick directly).
C32_OneFetchInFlight ==
    /\ [](/\ InFlight("refresh") <= 1
          /\ root.refreshInProgress <=> InFlight("refresh") = 1
          /\ LET m == [root EXCEPT !.refreshInProgress = TRUE] IN
             updateTick(m, dv) = RootRet(m, dv, tickRefreshMsg))
    /\ [][(hist'.op = "tick" /\ root.refreshInProgress)
             => InFlight("refresh")' = InFlight("refresh")]_vars

\* A fetch is in flight, issued by the tick just processed.
C32_Witness ==
    /\ unit.kind = "poll" /\ hist.op = "tick"
    /\ InFlight("refresh") = 1 /\ root.refreshInProgress

\* C33: from Init on, exactly one message of the loop is outstanding, a tick
\* or a fetch, after every tick and every refresh result, with or without an
\* error; and every refresh result processed is followed by a tick that
\* issues another fetch.
C33_LoopNeverStalls ==
    /\ [](InFlight("tickRefresh") + InFlight("refresh") = 1)
    /\ (hist.op \in {"refreshResult", "refreshError"})
          ~> (hist.op = "tick" /\ InFlight("refresh") = 1)

\* A refresh result that carried an error has been processed and the next
\* tick is outstanding.
C33_Witness ==
    /\ unit.kind = "poll" /\ hist.op = "refreshError"
    /\ InFlight("tickRefresh") = 1 /\ InFlight("refresh") = 0

(***************************************************************************)
(* Properties of the pending bracket.                                      *)
(***************************************************************************)
\* C34: with "[" or "]" pending, a key other than "c" is processed exactly
\* as it is from the same viewer with no bracket pending: the viewer, the
\* command and a panic are the same, for every key in every reachable viewer
\* and on every step taken; and unless the key is itself a bracket, no
\* bracket is pending afterwards.
C34_PrefixClearedThenProcessed ==
    /\ [](dv.pendingBracket # NoBracket
            => \A key \in NavKeys \ {"c"} :
                  Update(dv, key) = Update([dv EXCEPT !.pendingBracket = NoBracket], key))
    /\ [][(dv.pendingBracket # NoBracket /\ hist'.op = "key" /\ hist'.key # "c")
            => LET r == Update([dv EXCEPT !.pendingBracket = NoBracket], hist'.key) IN
               /\ crashed' = r.panic
               /\ ~r.panic => /\ dv' = r.dv /\ cmd' = r.cmd
                              /\ hist'.key \notin BracketKeys
                                    => dv'.pendingBracket = NoBracket]_vars

\* "j" after a bracket key has moved the cursor and no bracket is pending.
C34_Witness ==
    /\ hist.op = "key" /\ hist.key = "j" /\ hist.prevKey \in BracketKeys
    /\ dv.cursor = hist.preCursor + 1 /\ dv.pendingBracket = NoBracket

(***************************************************************************)
(* Properties of the empty lines of a hunk.                                *)
(***************************************************************************)
\* The hunk that ParseDiff returns for the text up to the first k lines
\* after the hunk header.
HunkUpTo(k) == ParseDiff(Join(BlankLines(raw.src, k))).diffs[1].Hunks[1]

\* The blank context line, as Parts gives it.
BlankContext == [Type |-> LineContext, Content |-> <<>>]

\* Every bare empty line of the hunk is appended as a blank context line if
\* the hunk parsed up to it is not complete, and adds nothing if it is.
C35_BlankIffBudgetLeft ==
    parsed.done =>
        \A k \in DOMAIN raw.src.body :
            raw.src.body[k] = <<>> =>
                Parts(HunkUpTo(k)) =
                    IF hunkComplete(HunkUpTo(k - 1)) THEN Parts(HunkUpTo(k - 1))
                    ELSE Append(Parts(HunkUpTo(k - 1)), BlankContext)

\* The first k lines after the header are lines with a marker, and they are
\* as many old lines and new lines as the header declares.
FillsBoth(k) ==
    LET ls == SubSeq(raw.src.body, 1, k) IN
    /\ \A i \in DOMAIN ls : ls[i] # <<>>
    /\ Cardinality({i \in DOMAIN ls : ls[i][1] # "+"}) = raw.src.oldCount
    /\ Cardinality({i \in DOMAIN ls : ls[i][1] # "-"}) = raw.src.newCount

\* C35: a bare empty line in a hunk is appended as a blank context line if
\* and only if the hunk has not yet consumed the counts of its header; and
\* when the lines of the hunk fill both counts exactly, the empty lines that
\* follow them add no line to the hunk.
C35_BlankLineWithinBudget ==
    /\ C35_BlankIffBudgetLeft
    /\ parsed.done =>
          \A k \in DOMAIN raw.src.body :
              (/\ FillsBoth(k)
               /\ k < Len(raw.src.body)
               /\ \A i \in (k + 1)..Len(raw.src.body) : raw.src.body[i] = <<>>)
                  => Parts(TheHunk) = Parts(HunkUpTo(k))

\* The removed line "-- a" fills the counts of its header, an empty line
\* follows it, and the hunk returned has a blank context line.
C35_BlankAdded ==
    /\ parsed.done
    /\ raw.src.oldCount = 1 /\ raw.src.newCount = 0
    /\ raw.src.body = <<<<"-", "-", "-", " ", "a">>, <<>>>>
    /\ Parts(TheHunk) = <<BlankContext>>

\* An empty line between two context lines was appended to a hunk that
\* declares three lines.
C35_BlankKept ==
    /\ parsed.done
    /\ Len(raw.src.body) = 3 /\ raw.src.body[2] = <<>>
    /\ Len(TheHunk.Lines) = 3 /\ Parts(TheHunk)[2] = BlankContext

(***************************************************************************)
(* Properties of the file shown.                                           *)
(***************************************************************************)
\* C36: whenever files are listed, the viewer shows the diff of the selected
\* file; and while a comment is being written, it is written for the file
\* whose rows the viewer shows.
C36_ShownIsSelected ==
    /\ Len(root.fileList.files) > 0
          => ~dv.diff.nil /\ dv.diff.Path = SelectedFile(root.fileList).Path
    /\ (root.focus = focusCommentInput /\ root.commentInput.active)
          => ~dv.diff.nil /\ dv.diff.Path = root.commentInput.filePath

\* A refresh result has removed the selected file from the list: another
\* file is selected, and the viewer still shows the rows of the removed one.
C36_StaleAfterRemoval ==
    /\ hist.op = "refreshResult"
    /\ Len(root.fileList.files) > 0
    /\ SelectedFile(root.fileList).Path # hist.selPath
    /\ ~dv.diff.nil /\ dv.diff.Path = hist.selPath

\* A comment is being written for a file other than the one whose rows are
\* shown.
C36_CommentOnOtherFile ==
    /\ root.focus = focusCommentInput /\ root.commentInput.active
    /\ ~dv.diff.nil /\ Len(dv.lines) > 0
    /\ dv.diff.Path # root.commentInput.filePath

(***************************************************************************)
(* Properties of the comments on the rows of a file.                       *)
(***************************************************************************)
\* C37: submitting a comment on a row marks no other row as commented, and
\* when the row had no comment yet, the store has one comment more: the
\* comment of no other row is replaced.
C37_RowsIndependent ==
    [][(hist'.op = "CommentSubmit" /\ ~crashed')
          => /\ dv'.commentLines \subseteq dv.commentLines \cup {dv.cursor}
             /\ dv.cursor \notin unit.commented
                   => Cardinality(root'.comments) = Cardinality(root.comments) + 1]_vars

\* A comment was submitted on the row of a removed line, and the row of the
\* added line after it is marked as well.
C37_OtherRowMarked ==
    /\ unit.kind = "rows" /\ hist.op = "CommentSubmit"
    /\ unit.commented = {1}
    /\ dv.lines[2].line.Type = LineRemoved
    /\ dv.commentLines = {1, 2}

\* Comments were submitted on two rows, and the store holds one comment.
C37_CommentReplaced ==
    /\ unit.kind = "rows" /\ hist.op = "CommentSubmit"
    /\ Cardinality(unit.commented) = 2
    /\ Cardinality(root.comments) = 1

(***************************************************************************)
(* Properties of the search matches and of the visual anchor.              *)
(***************************************************************************)
\* C38: every index in searchMatches is an index of the rows loaded, also
\* after SetDiff or RefreshDiff has loaded fewer rows, and a cursor moved by
\* "n" or "N" is on a row.
C38_SearchMatchesValid ==
    /\ \A i \in DOMAIN dv.searchMatches :
          dv.searchMatches[i] >= 0 /\ dv.searchMatches[i] < Len(dv.lines)
    /\ (hist.op = "key" /\ hist.key \in {"n", "N"} /\ dv.cursor # hist.preCursor)
          => dv.cursor >= 0 /\ dv.cursor < Len(dv.lines)

\* "n" has moved the cursor to a match of the rows loaded before, beyond the
\* last row of the diff loaded since.
C38_CursorBeyondRows ==
    /\ hist.op = "key" /\ hist.key = "n"
    /\ dv.cursor # hist.preCursor
    /\ dv.cursor >= Len(dv.lines)

\* C39: while visual mode is active, the visual anchor is an index of the
\* rows loaded, also after SetDiff or RefreshDiff has replaced the rows, and
\* both ends of VisualRange are indices of the rows.
C39_VisualAnchorValid ==
    dv.visualMode =>
        /\ dv.visualStart >= 0 /\ dv.visualStart < Len(dv.lines)
        /\ VisualRange(dv).start >= 0
        /\ VisualRange(dv).end <= Len(dv.lines) - 1

\* Visual mode is active after RefreshDiff has loaded fewer rows, and the
\* visual anchor is beyond the last of them.
C39_AnchorBeyondRows ==
    /\ hist.op = "RefreshDiff"
    /\ dv.visualMode
    /\ Len(dv.lines) > 0
    /\ dv.visualStart >= Len(dv.lines)

(***************************************************************************)
(* Properties of the move to the next and the previous file.               *)
(***************************************************************************)
\* The step that processes the navigateFileMsg c selects the other file and
\* loads its diff, or changes nothing when there is no such file; `orKept`
\* is whether the viewer may also be left as it was once the other file is
\* selected.
NavigatedAsClaimed(c, orKept) ==
    LET fl == root.fileList
        shown(i) == /\ ~dv'.diff.nil
                    /\ dv'.diff.Path = fl.files[i + 1].Path
                    /\ dv'.lines = flattenLines(dv'.diff)
    IN  IF c.n > 0 /\ fl.cursor < Len(fl.files) - 1
        THEN /\ root'.fileList = [fl EXCEPT !.cursor = fl.cursor + 1]
             /\ \/ shown(fl.cursor + 1) /\ dv'.cursor = 0
                \/ orKept /\ dv' = dv
        ELSE IF c.n < 0 /\ fl.cursor > 0
        THEN /\ root'.fileList = [fl EXCEPT !.cursor = fl.cursor - 1]
             /\ \/ /\ shown(fl.cursor - 1)
                   /\ dv'.cursor = Max({0, Len(dv'.lines) - 1})
                \/ orKept /\ dv' = dv
        ELSE /\ root'.fileList = fl
             /\ dv'.lines = dv.lines
             /\ dv'.cursor = dv.cursor

\* C40: processing the navigateFileMsg of a failed forward jump selects the
\* next file, when there is one, and loads its diff with the cursor on row
\* 0; that of a failed backward jump selects the previous file and loads its
\* diff with the cursor on its last row; when there is no such file, the
\* selected file, the rows and the cursor are unchanged.
C40_NavigateLoadsOtherFile ==
    [][(hist'.op = "navigateFile" /\ ~crashed')
          => \E c \in msgs \ msgs' : NavigatedAsClaimed(c, FALSE)]_vars

\* The same, with the viewer left as it was when the diff of the file
\* selected could not be loaded.
C40_NavigateUnlessLoadFails ==
    [][(hist'.op = "navigateFile" /\ ~crashed')
          => \E c \in msgs \ msgs' : NavigatedAsClaimed(c, TRUE)]_vars

\* The next file was selected, and the viewer still shows the rows of the
\* file before it.
C40_SelectedNotLoaded ==
    /\ hist.op = "navigateFile"
    /\ root.fileList.cursor = 1
    /\ ~dv.diff.nil /\ dv.diff.Path = root.fileList.files[1].Path

====
